---- MODULE Spec2Model ----
(***************************************************************************)
(* A model of gosh-rs/runners.                                             *)
(*                                                                         *)
(*   Spec     the in-memory job registry of job.rs (Db over Jobs: a        *)
(*            SlotMap of job sessions plus a BiMap JobId <-> slot key),    *)
(*            called by concurrent clients through its tokio Mutex.        *)
(*   FairSpec Spec with weak fairness on every step of the tasks and of    *)
(*            the children (the tokio runtime polls every ready task).     *)
(***************************************************************************)
EXTENDS Integers, Sequences, FiniteSets, TLC

\* ---------------------------------------------------------------- bounds
\* Number of job::Session::new calls (insert_job and update_job) in a run.
MaxSessions == 2
\* Number of children spawned by wait_job in a run.
MaxSpawns == 1

\* The longest timeout, in seconds, a Timed Runner is given.
MaxTimeout == 2
\* Number of processes in the session of a Timed Runner's child.
MaxProcs == 2

\* The concurrent tasks that call the Db (request handlers sharing a clone).
Clients == {"t1", "t2"}
NoClient == "none"
\* JobIds a client may pass: every id that can be issued, and one that cannot.
IdArgs == 1..(MaxSessions + 1)

\* ---------------------------------------------------------------- inputs
\* A submitted Job: what its script does, the input for its stdin, and where
\* its stdout file goes. "exit" is a script that ends by itself, "sleep" one
\* that never does.
\* out_file is a relative path of the Job JSON; "no_dir/job.out" names a
\* directory that does not exist in wrk_dir, so creating it fails.
JobInputs ==
    {[script |-> "exit", input |-> "", out_file |-> "job.out"],
     [script |-> "sleep", input |-> "", out_file |-> "job.out"],
     [script |-> "sleep", input |-> "", out_file |-> "no_dir/job.out"]}

\* A Job whose script copies its stdin to its stdout until the end of its
\* stdin and then ends.
PipeInputs == {[script |-> "cat", input |-> "abc", out_file |-> "job.out"]}

\* Jobs whose script reads no stdin, writes to its stderr and ends (its
\* stdout closes as it ends): "warn" writes one unit, "flood" one unit more
\* than PipeBuf, the units a pipe holds while nobody reads it.
PipeBuf == 2
ErrInputs ==
    {[script |-> "warn", input |-> "", out_file |-> "job.out"],
     [script |-> "flood", input |-> "", out_file |-> "job.out"]}
ErrTotal(script) ==
    IF script = "warn" THEN 1 ELSE IF script = "flood" THEN PipeBuf + 1 ELSE 0

PutFiles == {"extra.dat"}
Bodies == {"abc", "a"}

\* The operations the tasks of Spec call, and those the tasks of FileSpec call.
Ops == {"insert_job", "update_job", "delete_job", "clear_jobs", "get_job_list", "wait_job"}
FileOps == {"insert_job", "delete_job", "list_job_files", "get_job_file", "put_job_file"}

\* ----------------------------------------------------------------- state
VARIABLES
    jobs,     \* Jobs: [slots, free, mapping], the value under the Mutex
    lock,     \* the holder of Db.inner's Mutex, NoClient when it is free
    pc,       \* per client: where its current Db call stands
    call,     \* per client: the current call [op, id, child]
    ret,      \* the result of the call that finished in the last step, if one did
    procs,    \* the children spawned so far: pid -> [script, sid, state, job, code]
    dirs,     \* the temporary directories that exist: dir -> (file -> content)
    nextDir,  \* the next fresh directory name
    issued,   \* history: the JobIds returned by insert_job, in order
    deleted,  \* history: the JobIds a delete_job has removed
    snap,     \* history: the last get_job_list result and the number of inserts
              \* finished since; not valid once a delete or a clear came between
    lastput,  \* history: the last put_job_file that wrote: [id, file, data, prev]
    \* -- the Timed Runner (session.rs, adhoc.rs) --
    variant,      \* which Session runs: "session" (session.rs) or "adhoc" (adhoc.rs)
    program,      \* what the program does: "sleep", "cat", "true" or "false"
    stdin_bytes,  \* Session.stdin_bytes: "small" fits the pipe buffer, "large" not
    rpc,          \* where Session::run stands
    sid,          \* Session.sid: NoChild for None, else the pid of the child
    sess,         \* the child's session: pid -> [state, killed, reused, skipped]
    timeout,      \* the delay_for timer: Unarmed, else the seconds left
    ctrl_c,       \* whether SIGINT has reached the supervising process
    v,            \* the branch the select loop broke with, "none" before
    cmd_output,   \* Session.cmd_output: whether it holds the child's output
    todo,         \* the enumerated processes the broadcast has not come to yet
    target,       \* the pid the broadcast has re-resolved and is about to kill
    sigcall,      \* the last call of Session::signal made from outside: [sig, ret]
    signals,      \* history: the broadcasts made, as <<signal name, sid>>
    result,       \* what Session::run returned, "none" before
    \* -- the HTTP server (server.rs) --
    sjobs,      \* Jobs = slab::Slab<Job>: [entries, next], the value under the Mutex
    children,   \* the children the jobs have spawned: pid -> [script, state, termed]
    mutex,      \* the holder of the std Mutex of Db, NoClient when it is free
    handler,    \* per connection: where its handler stands, [pc, child]
    interrupt,  \* whether SIGINT has reached the server process
    server,     \* the main task: "serving", "closed", "dropped" or "stopped"
    reply,      \* the last response: [op, id, status, uid, started]
    sissued,    \* history: the ids the POST /jobs responses carried, in order
    torn,       \* history: the uids of the jobs a DELETE /jobs has cleared
    made,       \* history: the number of Job values received so far
    \* -- Server::new (server.rs) --
    addrs,      \* what addr.to_socket_addrs() gave: BadAddress or the addresses
    address,    \* Server.address, "none" before the call, "panic" when it panicked
    \* -- the stderr pipes of the children of job.rs --
    stderr_pipe, \* pid -> the units the child has written to its stderr so far
    \* -- run_adhoc_input_output (local.rs) --
    local,      \* the locals of the call, the two channels and the command thread
    \* -- Codec.framed(socket) (bin/ng.rs) --
    framed      \* the byte stream, what has arrived of it, buf, the chunks yielded

dbVars == <<jobs, lock, pc, call, ret, procs, dirs, nextDir, issued, deleted, snap,
            lastput>>
runVars == <<variant, program, stdin_bytes, rpc, sid, sess, timeout, ctrl_c, v,
             cmd_output, todo, target, sigcall, signals, result>>
servVars == <<sjobs, children, mutex, handler, interrupt, server, reply, sissued,
              torn, made>>
\* Server::new: the addresses the name resolved to, and the outcome.
addrVars == <<addrs, address>>
auxVars == <<addrVars, stderr_pipe, local, framed>>
vars == <<dbVars, runVars, servVars, auxVars>>

\* The timer that delay_for has not created yet.
Unarmed == -1
NoSigCall == [sig |-> "none", ret |-> "none"]

\* --------------------------------------------------------------- SlotMap
\* slotmap::SlotMap<DefaultKey, Session>: a slot holds a version, odd while
\* occupied; a key is <<index, version>>; freed slots are reused, newest first.
NoChild == 0
Vacant == [job |-> [script |-> "exit", input |-> "", out_file |-> "job.out"], wrk_dir |-> 0, session |-> NoChild]

SlotMap_contains(J, k) ==
    /\ k[1] \in 1..Len(J.slots)
    /\ J.slots[k[1]].ver = k[2]
    /\ k[2] % 2 = 1

SlotMap_keys(J) ==
    {<<i, J.slots[i].ver>> : i \in {j \in 1..Len(J.slots) : J.slots[j].ver % 2 = 1}}

\* SlotMap::insert: the key of the slot the value went to, and the new map.
SlotMap_insert(J, value) ==
    IF J.free # <<>>
    THEN LET i == Head(J.free)
             ver == J.slots[i].ver + 1
         IN [key |-> <<i, ver>>,
             jobs |-> [J EXCEPT !.slots[i] = [ver |-> ver, val |-> value],
                                !.free = Tail(J.free)]]
    ELSE [key |-> <<Len(J.slots) + 1, 1>>,
          jobs |-> [J EXCEPT !.slots = Append(J.slots, [ver |-> 1, val |-> value])]]

\* SlotMap::remove of a key the map contains.
SlotMap_remove(J, k) ==
    [J EXCEPT !.slots[k[1]] = [ver |-> k[2] + 1, val |-> Vacant],
              !.free = <<k[1]>> \o J.free]

\* SlotMap::clear: every occupied slot is removed, in index order.
RECURSIVE SlotMap_clear_from(_, _)
SlotMap_clear_from(J, i) ==
    IF i > Len(J.slots) THEN J
    ELSE IF J.slots[i].ver % 2 = 1
         THEN SlotMap_clear_from(SlotMap_remove(J, <<i, J.slots[i].ver>>), i + 1)
         ELSE SlotMap_clear_from(J, i + 1)

SlotMap_clear(J) == SlotMap_clear_from(J, 1)

\* ------------------------------------------------------------------ Jobs
Jobs_new == [slots |-> <<>>, free |-> <<>>, mapping |-> {}]

NoKey == <<0, 0>>

\* Jobs::check_job: the key mapping holds for id, NoKey for "Job id not found".
Jobs_check_job(J, id) ==
    IF \E p \in J.mapping : p[1] = id
    THEN (CHOOSE p \in J.mapping : p[1] = id)[2]
    ELSE NoKey

\* BiMap::insert_no_overwrite fails when either side is already present.
BiMap_can_insert(m, n, k) == \A p \in m : p[1] # n /\ p[2] # k

\* Jobs::insert that numbers the ids from 0: n = mapping.len().
Jobs_insert_zero_based(J, s) ==
    LET r == SlotMap_insert(J, s)
        n == Cardinality(J.mapping)
    IN IF BiMap_can_insert(J.mapping, n, r.key)
       THEN [panic |-> FALSE, id |-> n,
             jobs |-> [r.jobs EXCEPT !.mapping = @ \cup {<<n, r.key>>}]]
       ELSE [panic |-> TRUE, id |-> n, jobs |-> r.jobs]

\* Jobs::insert that numbers the ids by the jobs stored, n = inner.len(), and
\* goes on when the mapping refuses the pair.
Jobs_insert_by_len(J, s) ==
    LET r == SlotMap_insert(J, s)
        n == Cardinality(SlotMap_keys(r.jobs))
    IN [panic |-> FALSE, id |-> n,
        jobs |-> IF BiMap_can_insert(J.mapping, n, r.key)
                 THEN [r.jobs EXCEPT !.mapping = @ \cup {<<n, r.key>>}]
                 ELSE r.jobs]

\* Jobs::insert: the session goes to a slot, the id is mapping.len() + 1.
Jobs_insert(J, s) ==
    LET r == SlotMap_insert(J, s)
        n == Cardinality(J.mapping) + 1
    IN IF BiMap_can_insert(J.mapping, n, r.key)
       THEN [panic |-> FALSE, id |-> n,
             jobs |-> [r.jobs EXCEPT !.mapping = @ \cup {<<n, r.key>>}]]
       ELSE [panic |-> TRUE, id |-> n, jobs |-> r.jobs]

\* Jobs::remove that also forgets the id in the mapping.
Jobs_remove_unmap(J, k) ==
    [SlotMap_remove(J, k) EXCEPT !.mapping = {p \in @ : p[2] # k}]

\* Jobs::remove, after check_job gave k and inner[k] was found: the slot is
\* freed, the mapping is left as it is.
Jobs_remove(J, k) == SlotMap_remove(J, k)

\* A clear that gives every slot a new version, the vacant ones too.
Jobs_clear_retire(J) ==
    [SlotMap_clear(J) EXCEPT
        !.slots = [i \in DOMAIN @ |-> [ver |-> @[i].ver + 2, val |-> @[i].val]]]

\* Jobs::clear: inner.clear(), the mapping is left as it is.
Jobs_clear(J) == SlotMap_clear(J)

\* Jobs::to_id panics on a key the mapping does not hold.
Jobs_has_id(J, k) == \E p \in J.mapping : p[2] = k
Jobs_to_id(J, k) == (CHOOSE p \in J.mapping : p[2] = k)[1]

\* Jobs::iter().map(|(k, _)| k): the ids of the stored jobs.
Jobs_iter_ids(J) == {Jobs_to_id(J, k) : k \in SlotMap_keys(J)}
Jobs_iter_panics(J) == \E k \in SlotMap_keys(J) : ~Jobs_has_id(J, k)

\* Index<JobKey>: the session stored under a key the map contains.
Jobs_index(J, k) == J.slots[k[1]].val

\* A replacement done as remove and insert: the job comes back under a new id.
Jobs_set_reinsert(J, k, s) == Jobs_insert(SlotMap_remove(J, k), s).jobs

\* IndexMut<JobKey>, jobs[k] = s: the slot of k holds s, the key stays.
Jobs_set(J, k, s) == [J EXCEPT !.slots[k[1]].val = s]

\* ---------------------------------------------------------- job::Session
Absent == "<absent>"
FileNames == {"run", "job.inp", "job.out", "job.err", "extra.dat"}
GetFiles == {"job.out", "extra.dat"}

\* Session::new: the session of a job in the fresh temporary directory d.
Session_new(job, d) == [job |-> job, wrk_dir |-> d, session |-> NoChild]

\* A Session::new that leaves the new directory empty.
Session_new_files_none(job) == [f \in FileNames |-> Absent]

\* The files Session::new writes into the new directory: the run file and
\* the stdin file.
Session_new_files(job) ==
    [f \in FileNames |-> IF f = "run" THEN job.script
                         ELSE IF f = "job.inp" THEN job.input
                         ELSE Absent]

\* Session::is_started
Session_is_started(s) == s.session # NoChild

\* Session::start, last statement: self.session = Some(child).
Session_start_store(s, pid) == [s EXCEPT !.session = pid]

\* A wait that leaves the handle in the job.
Session_wait_keep(s) == s

\* Session::wait, first statement: self.session.take().
Session_wait_take(s) == [s EXCEPT !.session = NoChild]

\* process::signal_processes_by_session_id with a terminating signal: every
\* running process whose session id is session_id ends.
SignalSession(P, session_id) ==
    [p \in DOMAIN P |-> IF P[p].sid = session_id /\ P[p].state = "running"
                        THEN [P[p] EXCEPT !.state = "exited"]
                        ELSE P[p]]

\* Session::terminate: SIGTERM to the session named by the stored child's id.
Session_terminate(P, s) ==
    IF Session_is_started(s) THEN SignalSession(P, s.session) ELSE P

\* Drop for Session on every session of the sequence ss: terminate, then the
\* TempDir field removes the directory.
RECURSIVE DropProcs(_, _)
DropProcs(P, ss) ==
    IF ss = <<>> THEN P ELSE DropProcs(Session_terminate(P, Head(ss)), Tail(ss))

\* A drop that removes the scratch directory all working directories are in.
DropDirs_scratch(D, ss) == [d \in {} |-> D[d]]

DropDirs(D, ss) ==
    [d \in DOMAIN D \ {ss[i].wrk_dir : i \in 1..Len(ss)} |-> D[d]]

\* The sessions stored in the occupied slots, in index order.
RECURSIVE LiveSessionsFrom(_, _)
LiveSessionsFrom(J, i) ==
    IF i > Len(J.slots) THEN <<>>
    ELSE IF J.slots[i].ver % 2 = 1
         THEN <<J.slots[i].val>> \o LiveSessionsFrom(J, i + 1)
         ELSE LiveSessionsFrom(J, i + 1)

LiveSessions(J) == LiveSessionsFrom(J, 1)

\* ------------------------------------------------------------- Db: calls
NoCall == [op |-> "none", id |-> 0, child |-> NoChild]
NoSnap == [valid |-> FALSE, L |-> {}, n |-> 0]
NoPut == [id |-> 0, file |-> "", data |-> "", prev |-> ""]
NoRet ==
    [client |-> NoClient, op |-> "none", arg |-> 0, id |-> 0, val |-> "", list |-> {},
     file |-> "", data |-> "", pre |-> [snap |-> NoSnap, deleted |-> {}, live |-> 0]]

\* The result of c's call: its argument id, the id it returns, its outcome,
\* and the history and the number of stored jobs as they stood when the body
\* ran.
MkRet(c, arg, id, val) ==
    [client |-> c, op |-> call[c].op, arg |-> arg, id |-> id, val |-> val,
     list |-> {}, file |-> "", data |-> "",
     pre |-> [snap |-> snap, deleted |-> deleted,
              live |-> Cardinality(SlotMap_keys(jobs))]]

\* tokio::sync::Mutex::lock().await completes only while nobody holds it.
MutexFree(l) == l = NoClient

Pending(op) == Cardinality({c \in Clients : pc[c] \in {"lock", "body"} /\ call[c].op = op})

\* A task calls an operation of the Db; the call first awaits the Mutex. The
\* arguments of the call are read by its body, and are drawn there.
CallOf(c, ops) ==
    /\ UNCHANGED <<runVars, servVars, auxVars, lastput>>
    /\ pc[c] = "idle"
    /\ \E op \in ops :
        /\ op \in {"insert_job", "update_job"} =>
              (nextDir - 1) + Pending("insert_job") + Pending("update_job") < MaxSessions
        /\ op = "wait_job" => Len(procs) + Pending("wait_job") < MaxSpawns
        /\ call' = [call EXCEPT ![c] = [op |-> op, id |-> 0, child |-> NoChild]]
    /\ pc' = [pc EXCEPT ![c] = "lock"]
    /\ UNCHANGED <<jobs, lock, procs, dirs, nextDir, issued, deleted, snap>>
    /\ ret' = NoRet

Call(c) == CallOf(c, Ops)

FileCall(c) == CallOf(c, FileOps)

\* self.inner.lock().await
Acquire(c) ==
    /\ UNCHANGED <<runVars, servVars, auxVars, lastput>>
    /\ pc[c] = "lock"
    /\ MutexFree(lock)
    /\ lock' = c
    /\ pc' = [pc EXCEPT ![c] = "body"]
    /\ UNCHANGED <<jobs, call, procs, dirs, nextDir, issued, deleted, snap>>
    /\ ret' = NoRet

\* The call of c ends (by return or by panic): the MutexGuard is dropped.
Finish(c, r) ==
    /\ ret' = r
    /\ pc' = [pc EXCEPT ![c] = "idle"]
    /\ call' = [call EXCEPT ![c] = NoCall]
    /\ lock' = NoClient

\* ------------------------------------------------------------ Db: bodies
InBody(c, op) == pc[c] = "body" /\ call[c].op = op

\* Db::insert_job: job.submit() builds the session (tempfile::TempDir::new_in
\* may fail, and then expect panics), Jobs::insert stores it.
insert_job_of(c, inputs) ==
    /\ UNCHANGED <<runVars, servVars, auxVars, lastput>>
    /\ InBody(c, "insert_job")
    /\ \E job \in inputs, dir_ok \in BOOLEAN :
        IF ~dir_ok
        THEN /\ Finish(c, MkRet(c, 0, 0, "panic"))
             /\ UNCHANGED <<jobs, dirs, nextDir, issued, snap>>
        ELSE LET s == Session_new(job, nextDir)
                 r == Jobs_insert(jobs, s)
             IN /\ jobs' = r.jobs
                /\ dirs' = (nextDir :> Session_new_files(job)) @@ dirs
                /\ nextDir' = nextDir + 1
                /\ IF r.panic
                   THEN /\ Finish(c, MkRet(c, 0, 0, "panic"))
                        /\ UNCHANGED <<issued, snap>>
                   ELSE /\ Finish(c, MkRet(c, 0, r.id, "Ok"))
                        /\ issued' = Append(issued, r.id)
                        /\ snap' = [snap EXCEPT !.n = IF snap.valid THEN @ + 1 ELSE @]
    /\ UNCHANGED <<procs, deleted>>

insert_job(c) == insert_job_of(c, JobInputs)

\* Db::update_job: check_job, jobs[k] (Index panics on a key the SlotMap no
\* longer holds), is_started, then jobs[k] = new_job.submit(), which drops
\* the session stored before.
update_job(c) ==
    /\ UNCHANGED <<runVars, servVars, auxVars, lastput>>
    /\ InBody(c, "update_job")
    /\ \E id \in IdArgs, job \in JobInputs, dir_ok \in BOOLEAN :
       LET k == Jobs_check_job(jobs, id) IN
        IF k = NoKey
        THEN /\ Finish(c, MkRet(c, id, 0, "NotFound"))
             /\ UNCHANGED <<jobs, procs, dirs, nextDir>>
        ELSE IF ~SlotMap_contains(jobs, k)
        THEN /\ Finish(c, MkRet(c, id, 0, "panic"))
             /\ UNCHANGED <<jobs, procs, dirs, nextDir>>
        ELSE IF Session_is_started(Jobs_index(jobs, k))
        THEN /\ Finish(c, MkRet(c, id, 0, "AlreadyStarted"))
             /\ UNCHANGED <<jobs, procs, dirs, nextDir>>
        ELSE IF ~dir_ok
        THEN /\ Finish(c, MkRet(c, id, 0, "panic"))
             /\ UNCHANGED <<jobs, procs, dirs, nextDir>>
        ELSE LET old == Jobs_index(jobs, k) IN
             /\ jobs' = Jobs_set(jobs, k, Session_new(job, nextDir))
             /\ dirs' = DropDirs((nextDir :> Session_new_files(job)) @@ dirs, <<old>>)
             /\ procs' = DropProcs(procs, <<old>>)
             /\ nextDir' = nextDir + 1
             /\ Finish(c, MkRet(c, id, 0, "Ok"))
    /\ UNCHANGED <<issued, deleted, snap>>

\* Db::delete_job, Jobs::remove: check_job, &self.inner[k] (panics on a key
\* the SlotMap no longer holds), inner.remove(k), which drops the session.
delete_job(c) ==
    /\ UNCHANGED <<runVars, servVars, auxVars, lastput>>
    /\ InBody(c, "delete_job")
    /\ \E id \in IdArgs :
       LET k == Jobs_check_job(jobs, id) IN
        IF k = NoKey
        THEN /\ Finish(c, MkRet(c, id, 0, "NotFound"))
             /\ UNCHANGED <<jobs, procs, dirs, deleted, snap>>
        ELSE IF ~SlotMap_contains(jobs, k)
        THEN /\ Finish(c, MkRet(c, id, 0, "panic"))
             /\ UNCHANGED <<jobs, procs, dirs, deleted, snap>>
        ELSE LET old == Jobs_index(jobs, k) IN
             /\ jobs' = Jobs_remove(jobs, k)
             /\ dirs' = DropDirs(dirs, <<old>>)
             /\ procs' = DropProcs(procs, <<old>>)
             /\ deleted' = deleted \cup {id}
             /\ snap' = NoSnap
             /\ Finish(c, MkRet(c, id, 0, "Ok"))
    /\ UNCHANGED <<nextDir, issued>>

\* Db::clear_jobs, Jobs::clear: to_id is called for the started jobs (and
\* panics on a key without id), then inner.clear() drops every session.
clear_jobs(c) ==
    /\ UNCHANGED <<runVars, servVars, auxVars, lastput>>
    /\ InBody(c, "clear_jobs")
    /\ IF \E k \in SlotMap_keys(jobs) :
             Session_is_started(Jobs_index(jobs, k)) /\ ~Jobs_has_id(jobs, k)
       THEN /\ Finish(c, MkRet(c, 0, 0, "panic"))
            /\ UNCHANGED <<jobs, procs, dirs, snap>>
       ELSE /\ jobs' = Jobs_clear(jobs)
            /\ dirs' = DropDirs(dirs, LiveSessions(jobs))
            /\ procs' = DropProcs(procs, LiveSessions(jobs))
            /\ snap' = NoSnap
            /\ Finish(c, MkRet(c, 0, 0, "Ok"))
    /\ UNCHANGED <<nextDir, issued, deleted>>

\* Db::get_job_list: the ids of Jobs::iter.
get_job_list(c) ==
    /\ UNCHANGED <<runVars, servVars, auxVars, lastput>>
    /\ InBody(c, "get_job_list")
    /\ IF Jobs_iter_panics(jobs)
       THEN /\ Finish(c, MkRet(c, 0, 0, "panic"))
            /\ UNCHANGED snap
       ELSE /\ Finish(c, [MkRet(c, 0, 0, "Ok") EXCEPT !.list = Jobs_iter_ids(jobs)])
            /\ snap' = [valid |-> TRUE, L |-> Jobs_iter_ids(jobs), n |-> 0]
    /\ UNCHANGED <<jobs, procs, dirs, nextDir, issued, deleted>>

\* What the script of a job has written to its stdout when it has ended.
Output(job) ==
    IF job.script = "exit" THEN "done"
    ELSE IF job.script = "cat" THEN job.input
    ELSE ""

\* What the child's stderr has carried when it is at its end.
ErrOutput(job) == IF ErrTotal(job.script) > 0 THEN "warning" ELSE ""

\* Db::wait_job up to the first await inside Session::start: check_job,
\* jobs[k], Command::spawn of the run file (no setsid: the child stays in the
\* session of the server, written 0), and the write of the input to its stdin.
wait_job(c) ==
    /\ UNCHANGED <<runVars, servVars, auxVars, lastput>>
    /\ InBody(c, "wait_job")
    /\ \E id \in IdArgs :
       LET k == Jobs_check_job(jobs, id) IN
        IF k = NoKey
        THEN /\ Finish(c, MkRet(c, id, 0, "NotFound"))
             /\ UNCHANGED procs
        ELSE IF ~SlotMap_contains(jobs, k)
        THEN /\ Finish(c, MkRet(c, id, 0, "panic"))
             /\ UNCHANGED procs
        ELSE /\ procs' = Append(procs, [script |-> Jobs_index(jobs, k).job.script,
                                        sid |-> 0, state |-> "running", job |-> id,
                                        code |-> 0])
             /\ call' = [call EXCEPT ![c].id = id, ![c].child = Len(procs) + 1]
             /\ pc' = [pc EXCEPT ![c] = "start_create"]
             /\ ret' = NoRet
             /\ UNCHANGED lock
    /\ UNCHANGED <<jobs, dirs, nextDir, issued, deleted, snap>>

\* Session::start: File::create(out_file)? and File::create(err_file)?. On
\* the error the call returns; the Child is dropped without kill_on_drop, so
\* the child goes on running.
wait_job_create(c) ==
    /\ UNCHANGED <<runVars, servVars, auxVars, lastput>>
    /\ pc[c] = "start_create"
    /\ LET k == Jobs_check_job(jobs, call[c].id)
           s == Jobs_index(jobs, k)
       IN IF s.job.out_file # "job.out"
          THEN /\ Finish(c, MkRet(c, call[c].id, 0, "IoError"))
               /\ UNCHANGED dirs
          ELSE /\ dirs' = [dirs EXCEPT ![s.wrk_dir]["job.out"] = "",
                                       ![s.wrk_dir]["job.err"] = ""]
               /\ pc' = [pc EXCEPT ![c] = "start_copy"]
               /\ ret' = NoRet
               /\ UNCHANGED <<lock, call>>
    /\ UNCHANGED <<jobs, procs, nextDir, issued, deleted, snap>>

\* Session::start: io::copy of stdout, then of stderr, each until end of
\* file, that is until the child has ended; then self.session = Some(child).
\* Session::wait follows without an await in between: self.session.take().
wait_job_copy(c) ==
    /\ UNCHANGED <<runVars, servVars, auxVars, lastput>>
    /\ pc[c] = "start_copy"
    /\ procs[call[c].child].state = "exited"
    /\ LET k == Jobs_check_job(jobs, call[c].id)
           s == Jobs_index(jobs, k)
       IN /\ dirs' = [dirs EXCEPT ![s.wrk_dir]["job.out"] = Output(s.job),
                                   ![s.wrk_dir]["job.err"] = ErrOutput(s.job)]
          /\ jobs' = Jobs_set(jobs, k,
                              Session_wait_take(Session_start_store(s, call[c].child)))
    /\ pc' = [pc EXCEPT ![c] = "wait"]
    /\ ret' = NoRet
    /\ UNCHANGED <<lock, call, procs, nextDir, issued, deleted, snap>>

\* A wait that hands the exit status of the child on as its result.
WaitResult_status(code) == IF code = 0 THEN "Ok" ELSE "Failed"

\* Session::wait drops the value of wait_with_output().await, and wait_job
\* returns Ok(()) after it.
WaitResult(code) == "Ok"

\* Session::wait: child.wait_with_output().await, then wait_job returns Ok.
wait_job_wait(c) ==
    /\ UNCHANGED <<runVars, servVars, auxVars, lastput>>
    /\ pc[c] = "wait"
    /\ procs[call[c].child].state = "exited"
    /\ Finish(c, MkRet(c, call[c].id, 0, WaitResult(procs[call[c].child].code)))
    /\ UNCHANGED <<jobs, procs, dirs, nextDir, issued, deleted, snap>>

\* Db::list_job_files: the regular files of the job's wrk_dir.
list_job_files(c) ==
    /\ UNCHANGED <<runVars, servVars, auxVars, lastput>>
    /\ InBody(c, "list_job_files")
    /\ \E id \in IdArgs :
       LET k == Jobs_check_job(jobs, id) IN
        IF k = NoKey
        THEN Finish(c, MkRet(c, id, 0, "NotFound"))
        ELSE IF ~SlotMap_contains(jobs, k)
        THEN Finish(c, MkRet(c, id, 0, "panic"))
        ELSE LET d == Jobs_index(jobs, k).wrk_dir IN
             Finish(c, [MkRet(c, id, 0, "Ok") EXCEPT
                            !.list = {f \in FileNames : dirs[d][f] # Absent}])
    /\ UNCHANGED <<jobs, procs, dirs, nextDir, issued, deleted, snap>>

\* Db::get_job_file: File::open(wrk_dir/file)?, read_to_end.
get_job_file(c) ==
    /\ UNCHANGED <<runVars, servVars, auxVars, lastput>>
    /\ InBody(c, "get_job_file")
    /\ \E id \in IdArgs, file \in GetFiles :
       LET k == Jobs_check_job(jobs, id) IN
        IF k = NoKey
        THEN Finish(c, MkRet(c, id, 0, "NotFound"))
        ELSE IF ~SlotMap_contains(jobs, k)
        THEN Finish(c, MkRet(c, id, 0, "panic"))
        ELSE LET d == Jobs_index(jobs, k).wrk_dir IN
             IF dirs[d][file] = Absent
             THEN Finish(c, MkRet(c, id, 0, "IoError"))
             ELSE Finish(c, [MkRet(c, id, 0, "Ok") EXCEPT !.file = file,
                                                          !.data = dirs[d][file]])
    /\ UNCHANGED <<jobs, procs, dirs, nextDir, issued, deleted, snap>>

\* A write that does not truncate: the shorter body over the longer content
\* leaves the tail of the old content in the file.
WriteFile_untruncated(old, body) == IF old = "abc" /\ body = "a" THEN "abc" ELSE body

\* File::create truncates the file if it exists, write_all writes the body.
WriteFile(old, body) == body

\* Db::put_job_file: File::create(wrk_dir/file), write_all(body).
put_job_file(c) ==
    /\ UNCHANGED <<runVars, servVars, auxVars>>
    /\ InBody(c, "put_job_file")
    /\ \E id \in IdArgs, file \in PutFiles, body \in Bodies :
       LET k == Jobs_check_job(jobs, id) IN
        IF k = NoKey
        THEN /\ Finish(c, MkRet(c, id, 0, "NotFound"))
             /\ UNCHANGED <<dirs, lastput>>
        ELSE IF ~SlotMap_contains(jobs, k)
        THEN /\ Finish(c, MkRet(c, id, 0, "panic"))
             /\ UNCHANGED <<dirs, lastput>>
        ELSE LET d == Jobs_index(jobs, k).wrk_dir IN
             /\ dirs' = [dirs EXCEPT ![d][file] = WriteFile(dirs[d][file], body)]
             /\ lastput' = [id |-> id, file |-> file, data |-> body,
                            prev |-> dirs[d][file]]
             /\ Finish(c, MkRet(c, id, 0, "Ok"))
    /\ UNCHANGED <<jobs, procs, nextDir, issued, deleted, snap>>

\* Session::start keeps the handle of the child's stdin, a local, until it
\* returns: while a call is inside start, the stdin of its child is open.
StdinOpen(p) ==
    \E c \in Clients : call[c].child = p /\ pc[c] \in {"start_create", "start_copy"}

\* The units child p has written to its stderr.
Written(p) == IF p \in DOMAIN stderr_pipe THEN stderr_pipe[p] ELSE 0

\* The child writes one more unit to its stderr. Session::start reads the
\* stderr pipe only after the stdout pipe is at its end, which it is when
\* the child has ended: while the child runs nothing is taken out of the
\* pipe, and a write to a full pipe blocks.
ChildWrite(p) ==
    /\ p \in DOMAIN procs
    /\ procs[p].state = "running"
    /\ Written(p) < ErrTotal(procs[p].script)
    /\ Written(p) < PipeBuf
    /\ stderr_pipe' = (p :> (Written(p) + 1)) @@ stderr_pipe
    /\ UNCHANGED <<addrVars, local, framed, dbVars, runVars, servVars>>

\* A child whose script ends by itself ends, with one of the exit codes:
\* "exit" at any time, "cat" once its stdin is at its end, "warn" and
\* "flood" once all they write to stderr is written.
ChildExit_of(p, codes) ==
    /\ UNCHANGED <<runVars, servVars, auxVars, lastput>>
    /\ p \in DOMAIN procs
    /\ procs[p].state = "running"
    /\ \/ procs[p].script = "exit"
       \/ procs[p].script = "cat" /\ ~StdinOpen(p)
       \/ ErrTotal(procs[p].script) > 0 /\ Written(p) = ErrTotal(procs[p].script)
    /\ \E code \in codes : procs' = [procs EXCEPT ![p].state = "exited", ![p].code = code]
    /\ UNCHANGED <<jobs, lock, pc, call, dirs, nextDir, issued, deleted, snap>>
    /\ ret' = NoRet

\* A child ends with success.
ChildExit(p) == ChildExit_of(p, {0})

\* ------------------------------------------------------------ slab::Slab
\* Slab<Job> as server.rs uses it: a vector of entries, each occupied by a
\* Job or vacant and naming the next vacant key, and the key the next insert
\* takes. Keys count from 0; entries[key + 1] is the entry of key.
NoServJob == [uid |-> 0, session |-> NoChild, wrk_dir |-> FALSE]
Entry_Occupied(val) == [occupied |-> TRUE, val |-> val, next |-> 0]
Entry_Vacant(next) == [occupied |-> FALSE, val |-> NoServJob, next |-> next]

Slab_new == [entries |-> <<>>, next |-> 0]

Slab_contains(S, key) == key < Len(S.entries) /\ S.entries[key + 1].occupied

\* Slab::insert: the value goes to the key `next`, a pushed entry or the
\* vacant entry that was freed last.
Slab_insert(S, val) ==
    IF S.next = Len(S.entries)
    THEN [entries |-> Append(S.entries, Entry_Occupied(val)), next |-> S.next + 1]
    ELSE [entries |-> [S.entries EXCEPT ![S.next + 1] = Entry_Occupied(val)],
          next |-> S.entries[S.next + 1].next]

\* Slab::remove of an occupied key: the entry becomes the head of the list of
\* vacant entries.
Slab_remove(S, key) ==
    [entries |-> [S.entries EXCEPT ![key + 1] = Entry_Vacant(S.next)], next |-> key]

\* IndexMut: jobs[key] = val, for an occupied key.
Slab_set(S, key, val) == [S EXCEPT !.entries[key + 1] = Entry_Occupied(val)]

\* A clear that leaves the jobs where they are.
Slab_clear_keep(S) == S

\* Slab::clear: entries.clear(), next = 0.
Slab_clear(S) == Slab_new

\* The keys of the occupied entries, and the jobs in them.
Slab_keys(S) == {k \in 0..(Len(S.entries) - 1) : S.entries[k + 1].occupied}
Slab_jobs(S) == {S.entries[k + 1].val : k \in Slab_keys(S)}

\* Drop for Job on each of the jobs js: Job::terminate signals SIGTERM to the
\* processes of the session of the child, if self.session holds one.
DropJobs(C, js) ==
    [p \in DOMAIN C |->
        IF \E j \in js : j.session = p
        THEN [C[p] EXCEPT !.state = "exited", !.termed = TRUE]
        ELSE C[p]]

NoHandler == [pc |-> "idle", child |-> NoChild]
NoReply == [op |-> "none", id |-> 0, status |-> 0, uid |-> 0, started |-> FALSE]

\* Server::serve has bound the address and polls the interrupt and the server.
ServerNew ==
    /\ sjobs = Slab_new
    /\ children = <<>>
    /\ mutex = NoClient
    /\ handler = [c \in Clients |-> NoHandler]
    /\ interrupt = FALSE
    /\ server = "serving"
    /\ reply = NoReply
    /\ sissued = <<>>
    /\ torn = {}
    /\ made = 0

\* --------------------------------------------------------- specification
\* Db::new
DbInit ==
    /\ lastput = NoPut
    /\ jobs = Jobs_new
    /\ lock = NoClient
    /\ pc = [c \in Clients |-> "idle"]
    /\ call = [c \in Clients |-> NoCall]
    /\ ret = NoRet
    /\ procs = <<>>
    /\ dirs = <<>>
    /\ nextDir = 1
    /\ issued = <<>>
    /\ deleted = {}
    /\ snap = NoSnap

\* No Timed Runner is at work beside the registry.
RunIdle ==
    /\ variant = "session"
    /\ program = "sleep"
    /\ stdin_bytes = "small"
    /\ rpc = "new"
    /\ sid = NoChild
    /\ sess = <<>>
    /\ timeout = Unarmed
    /\ ctrl_c = FALSE
    /\ v = "none"
    /\ cmd_output = FALSE
    /\ todo = {}
    /\ target = NoChild
    /\ sigcall = NoSigCall
    /\ signals = <<>>
    /\ result = "none"

\* Server::new has not been given a name to resolve.
NoAddrs == [ok |-> TRUE, list |-> <<>>]
AddrIdle ==
    /\ addrs = NoAddrs
    /\ address = "none"

\* No child has written to its stderr.
PipesIdle == stderr_pipe = <<>>

\* run_adhoc_input_output has made its channels: no message is in them, the
\* command thread has been spawned and has not run yet.
NoLocal ==
    [main |-> "select", thread |-> "spawn", runcmd_events |-> <<>>,
     signal_events |-> <<>>, timeout |-> "never", kill |-> FALSE, session_id |-> 0,
     cmd_output |-> "", result |-> "none", logged |-> FALSE]
LocalIdle == local = NoLocal

\* No socket has been framed.
NoFramed == [stream |-> <<>>, arrived |-> 0, buf |-> <<>>, chunks |-> <<>>,
             readable |-> FALSE, panicked |-> FALSE]
FramedIdle == framed = NoFramed

AuxIdle == AddrIdle /\ PipesIdle /\ LocalIdle /\ FramedIdle

Init == DbInit /\ RunIdle /\ ServerNew /\ AuxIdle

Step(c) ==
    \/ Call(c)
    \/ Acquire(c)
    \/ insert_job(c)
    \/ update_job(c)
    \/ delete_job(c)
    \/ clear_jobs(c)
    \/ get_job_list(c)
    \/ wait_job(c)
    \/ wait_job_create(c)
    \/ wait_job_copy(c)
    \/ wait_job_wait(c)

Next ==
    \/ \E c \in Clients : Step(c)
    \/ \E p \in 1..MaxSpawns : ChildExit(p)

Spec == Init /\ [][Next]_vars

\* The tokio runtime polls every task that can make a step, and a child
\* that is about to end ends.
FairSpec ==
    /\ Spec
    /\ \A c \in Clients : WF_vars(Step(c))
    /\ \A p \in 1..MaxSpawns : WF_vars(ChildExit(p))

\* The same registry with tasks that work on the files of the jobs.
FileStep(c) ==
    \/ FileCall(c)
    \/ Acquire(c)
    \/ insert_job_of(c, PipeInputs)
    \/ delete_job(c)
    \/ list_job_files(c)
    \/ get_job_file(c)
    \/ put_job_file(c)

FileNext == \E c \in Clients : FileStep(c)

FileSpec == Init /\ [][FileNext]_vars

\* The same registry with tasks that insert jobs, those that read their
\* stdin among them, and wait for them, and with room for a second child.
WaitOps == {"insert_job", "wait_job"}

WaitCall(c) ==
    /\ UNCHANGED <<runVars, servVars, auxVars, lastput>>
    /\ pc[c] = "idle"
    /\ \E op \in WaitOps :
        /\ op = "insert_job" => (nextDir - 1) + Pending("insert_job") < MaxSessions
        /\ op = "wait_job" => Len(procs) + Pending("wait_job") < MaxSpawns + 1
        /\ call' = [call EXCEPT ![c] = [op |-> op, id |-> 0, child |-> NoChild]]
    /\ pc' = [pc EXCEPT ![c] = "lock"]
    /\ UNCHANGED <<jobs, lock, procs, dirs, nextDir, issued, deleted, snap>>
    /\ ret' = NoRet

insert_pipe_job(c) == insert_job_of(c, JobInputs \cup PipeInputs)

WaitStep(c) ==
    \/ WaitCall(c)
    \/ Acquire(c)
    \/ insert_pipe_job(c)
    \/ wait_job(c)
    \/ wait_job_create(c)
    \/ wait_job_copy(c)
    \/ wait_job_wait(c)

\* A child ends with success or with a failure status.
ExitCodes == {0, 1}

ChildExitAny(p) == ChildExit_of(p, ExitCodes)

WaitNext ==
    \/ \E c \in Clients : WaitStep(c)
    \/ \E p \in 1..(MaxSpawns + 1) : ChildExitAny(p)

WaitSpec == Init /\ [][WaitNext]_vars

\* The tokio runtime polls every task that can make a step, and a child
\* that is about to end ends.
FairWaitSpec ==
    /\ WaitSpec
    /\ \A c \in Clients : WF_vars(WaitStep(c))
    /\ \A p \in 1..(MaxSpawns + 1) : WF_vars(ChildExitAny(p))

\* The same registry with tasks that insert jobs that write to their stderr
\* and wait for them.
insert_err_job(c) == insert_job_of(c, ErrInputs)

ErrStep(c) ==
    \/ WaitCall(c)
    \/ Acquire(c)
    \/ insert_err_job(c)
    \/ wait_job(c)
    \/ wait_job_create(c)
    \/ wait_job_copy(c)
    \/ wait_job_wait(c)

ErrNext ==
    \/ \E c \in Clients : ErrStep(c)
    \/ \E p \in 1..(MaxSpawns + 1) : ChildWrite(p)
    \/ \E p \in 1..(MaxSpawns + 1) : ChildExit(p)

ErrSpec == Init /\ [][ErrNext]_vars

\* The tokio runtime polls every task that can make a step, and a child
\* that can write or end does so.
FairErrSpec ==
    /\ ErrSpec
    /\ \A c \in Clients : WF_vars(ErrStep(c))
    /\ \A p \in 1..(MaxSpawns + 1) : WF_vars(ChildWrite(p))
    /\ \A p \in 1..(MaxSpawns + 1) : WF_vars(ChildExit(p))

\* The same registry with tasks that never list the jobs: every operation
\* that creates, replaces, uses or removes a working directory.
DirOps == {"insert_job", "update_job", "delete_job", "clear_jobs", "wait_job"}

DirCall(c) == CallOf(c, DirOps)

DirStep(c) ==
    \/ DirCall(c)
    \/ Acquire(c)
    \/ insert_job(c)
    \/ update_job(c)
    \/ delete_job(c)
    \/ clear_jobs(c)
    \/ wait_job(c)
    \/ wait_job_create(c)
    \/ wait_job_copy(c)
    \/ wait_job_wait(c)

DirNext ==
    \/ \E c \in Clients : DirStep(c)
    \/ \E p \in 1..MaxSpawns : ChildExit(p)

DirSpec == Init /\ [][DirNext]_vars

\* The same registry with tasks that never wait for a job: no child is
\* spawned, the jobs are made, replaced, removed and listed.
ListOps == {"insert_job", "update_job", "delete_job", "clear_jobs", "get_job_list"}

ListCall(c) == CallOf(c, ListOps)

ListStep(c) ==
    \/ ListCall(c)
    \/ Acquire(c)
    \/ insert_job(c)
    \/ update_job(c)
    \/ delete_job(c)
    \/ clear_jobs(c)
    \/ get_job_list(c)

ListNext == \E c \in Clients : ListStep(c)

ListSpec == Init /\ [][ListNext]_vars

\* ========================================================== Timed Runner
\* Session::run of session.rs and of adhoc.rs: spawn `setsid -w program`,
\* (session.rs) write stdin_bytes to it, select over timeout, ctrl_c and the
\* end of the child, kill(), return.
Variants == {"session", "adhoc"}
\* "sleep" never reads its stdin and never ends by itself, "cat" reads its
\* stdin to the end and then ends, "true" ends without reading; these end
\* with a success status. "false" ends without reading, with a failure status.
Programs == {"sleep", "cat", "true", "false"}
Timeouts == 1..MaxTimeout

RunInit ==
    /\ DbInit
    /\ ServerNew
    /\ AuxIdle
    /\ variant \in Variants
    /\ program \in Programs
    /\ stdin_bytes \in {"small", "large"}
    /\ variant = "adhoc" => stdin_bytes = "small"
    /\ rpc = "new"
    /\ sid = NoChild
    /\ sess = <<>>
    /\ timeout = Unarmed
    /\ ctrl_c = FALSE
    /\ v = "none"
    /\ cmd_output = FALSE
    /\ todo = {}
    /\ target = NoChild
    /\ sigcall = NoSigCall
    /\ signals = <<>>
    /\ result = "none"

Leader == 1
\* A process is alive under pid p; and it is the process of the session that
\* was given the pid first, not a later process that got the pid again.
Alive(p) == p \in DOMAIN sess /\ sess[p].state = "running"
Running(p) == Alive(p) /\ ~sess[p].reused

\* An error that comes back to Session::run: session.rs returns it with `?`,
\* adhoc.rs panics in unwrap.
Fail(origin) == IF variant = "session" THEN "Err: " \o origin ELSE "panic"

\* The names Session::terminate, kill, pause and resume pass to signal.
SignalNames == {"SIGTERM", "SIGKILL", "SIGSTOP", "SIGCONT"}

\* A signal call that acts although no child has been spawned.
SignalIsNoop_never(session_id) == FALSE

\* Session::signal: `if let Some(sid) = self.sid` fails, nothing is done.
SignalIsNoop(session_id) == session_id = NoChild

\* Session::signal(sig) called by the owner of the Session. run(mut self)
\* takes the Session, so the owner can call only before run.
Signal(sig) ==
    /\ rpc = "new"
    /\ sigcall.sig # sig
    /\ sigcall' = [sig |-> sig, ret |-> "Ok"]
    /\ IF SignalIsNoop(sid)
       THEN UNCHANGED signals
       ELSE signals' = Append(signals, <<sig, sid>>)
    /\ UNCHANGED <<target, variant, program, stdin_bytes, rpc, sid, sess, timeout,
                   ctrl_c, v, cmd_output, todo, result>>
    /\ UNCHANGED <<dbVars, servVars, auxVars>>

\* Command::spawn fails (no setsid, no program).
SpawnFail ==
    /\ rpc = "new"
    /\ rpc' = "returned"
    /\ result' = Fail("spawn")
    /\ UNCHANGED <<sigcall, target, variant, program, stdin_bytes, sid, sess, timeout, ctrl_c, v,
                   cmd_output, todo, signals>>
    /\ UNCHANGED <<dbVars, servVars, auxVars>>

\* Command::spawn, self.sid = Some(child.id()). setsid makes the child the
\* leader of a new session, whose id is its pid. adhoc.rs has no stdin to
\* write and creates the timer at once.
Spawn ==
    /\ rpc = "new"
    /\ sess' = <<[state |-> "running", killed |-> FALSE, reused |-> FALSE, skipped |-> "no"]>>
    /\ sid' = Leader
    /\ IF variant = "session"
       THEN rpc' = "stdin" /\ UNCHANGED timeout
       ELSE rpc' = "select" /\ timeout' \in Timeouts
    /\ UNCHANGED <<sigcall, target, variant, program, stdin_bytes, ctrl_c, v, cmd_output, todo,
                   signals, result>>
    /\ UNCHANGED <<dbVars, servVars, auxVars>>

\* write_all(&self.stdin_bytes).await comes back with Ok: the bytes fit the
\* pipe buffer, or the child reads them. Then delay_for creates the timer.
StdinAccepted ==
    /\ Running(Leader)
    /\ stdin_bytes = "small" \/ program = "cat"

WriteStdin ==
    /\ rpc = "stdin"
    /\ StdinAccepted
    /\ rpc' = "select"
    /\ timeout' \in Timeouts
    /\ UNCHANGED <<sigcall, target, variant, program, stdin_bytes, sid, sess, ctrl_c, v, cmd_output,
                   todo, signals, result>>
    /\ UNCHANGED <<dbVars, servVars, auxVars>>

\* write_all comes back with an error (the child has ended and the pipe is
\* broken): `.context("Failed to write to stdin")?` returns it.
WriteStdinFail ==
    /\ rpc = "stdin"
    /\ ~Running(Leader)
    /\ rpc' = "returned"
    /\ result' = Fail("stdin")
    /\ UNCHANGED <<sigcall, target, variant, program, stdin_bytes, sid, sess, timeout, ctrl_c, v,
                   cmd_output, todo, signals>>
    /\ UNCHANGED <<dbVars, servVars, auxVars>>

\* A second passes on the timer.
Tick ==
    /\ timeout > 0
    /\ timeout' = timeout - 1
    /\ UNCHANGED <<sigcall, target, variant, program, stdin_bytes, rpc, sid, sess, ctrl_c, v,
                   cmd_output, todo, signals, result>>
    /\ UNCHANGED <<dbVars, servVars, auxVars>>

\* SIGINT reaches the supervising process once ctrl_c() has been made: while
\* it selects, or later, when nothing awaits the signal any more.
SigInt ==
    /\ rpc \in {"select", "kill", "broadcast"}
    /\ ~ctrl_c
    /\ ctrl_c' = TRUE
    /\ UNCHANGED <<sigcall, target, variant, program, stdin_bytes, rpc, sid, sess, timeout, v,
                   cmd_output, todo, signals, result>>
    /\ UNCHANGED <<dbVars, servVars, auxVars>>

\* The leader ends by itself: "true" at any time, "cat" once its stdin is at
\* its end (the handle is dropped after the write; adhoc.rs gives it the
\* stdin of the runner, taken to be at its end).
LeaderExit ==
    /\ Running(Leader)
    /\ \/ program \in {"true", "false"}
       \/ program = "cat" /\ rpc # "stdin"
    /\ sess' = [sess EXCEPT ![Leader].state = "exited"]
    /\ UNCHANGED <<sigcall, target, variant, program, stdin_bytes, rpc, sid, timeout, ctrl_c, v,
                   cmd_output, todo, signals, result>>
    /\ UNCHANGED <<dbVars, servVars, auxVars>>

\* The leader starts a process in the background: it stays in the session,
\* holds the stdout and stderr of the leader, not its stdin.
Fork ==
    /\ Running(Leader)
    /\ Len(sess) < MaxProcs
    /\ sess' = Append(sess, [state |-> "running", killed |-> FALSE, reused |-> FALSE, skipped |-> "no"])
    /\ UNCHANGED <<sigcall, target, variant, program, stdin_bytes, rpc, sid, timeout, ctrl_c, v,
                   cmd_output, todo, signals, result>>
    /\ UNCHANGED <<dbVars, servVars, auxVars>>

\* select!: the `timeout` branch.
SelectTimeout ==
    /\ rpc = "select"
    /\ timeout = 0
    /\ v' = "timeout"
    /\ rpc' = "kill"
    /\ UNCHANGED <<sigcall, target, variant, program, stdin_bytes, sid, sess, timeout, ctrl_c,
                   cmd_output, todo, signals, result>>
    /\ UNCHANGED <<dbVars, servVars, auxVars>>

\* A runner that acts on an interrupt that comes after the loop has broken.
SelectCtrlC_late ==
    /\ rpc \in {"select", "kill"}
    /\ ctrl_c
    /\ v # "ctrl_c"
    /\ v' = "ctrl_c"
    /\ rpc' = "kill"
    /\ UNCHANGED <<sigcall, target, variant, program, stdin_bytes, sid, sess, timeout, ctrl_c,
                   cmd_output, todo, signals, result>>
    /\ UNCHANGED <<dbVars, servVars, auxVars>>

\* select!: the `ctrl_c` branch.
SelectCtrlC ==
    /\ rpc = "select"
    /\ ctrl_c
    /\ v' = "ctrl_c"
    /\ rpc' = "kill"
    /\ UNCHANGED <<sigcall, target, variant, program, stdin_bytes, sid, sess, timeout, ctrl_c,
                   cmd_output, todo, signals, result>>
    /\ UNCHANGED <<dbVars, servVars, auxVars>>

\* What the third branch awaits. session.rs: child.wait_with_output(), which
\* ends when the child has ended and its stdout and stderr are at their end,
\* so when no process of the session holds them any more. adhoc.rs: the
\* child itself.
ChildDone ==
    IF variant = "session"
    THEN \A p \in DOMAIN sess : ~Running(p)
    ELSE ~Running(Leader)

\* select!: the branch of the child; session.rs stores the output unless
\* collecting it failed.
SelectExit ==
    /\ rpc = "select"
    /\ ChildDone
    /\ v' = "exit"
    /\ rpc' = "kill"
    /\ IF variant = "session" THEN cmd_output' \in BOOLEAN ELSE UNCHANGED cmd_output
    /\ UNCHANGED <<sigcall, target, variant, program, stdin_bytes, sid, sess, timeout, ctrl_c,
                   todo, signals, result>>
    /\ UNCHANGED <<dbVars, servVars, auxVars>>

\* The post-loop kill leaves the branch of a child that has ended out.
PostLoopKills_interrupted_only(outcome) == outcome # "exit"

\* After the loop: `if v == 1 { self.kill() } else { self.kill() }`.
PostLoopKills(outcome) == TRUE

\* What Session::start hands to Session::run when it ends with Ok(()):
\* session.rs returns cmd_output.take().ok_or("no cmd output").
RunResult == IF variant = "session" /\ ~cmd_output THEN "Err: no cmd output" ELSE "Ok"

\* enter_main: `.run()?`, dbg!(o), Ok(()): the exit code of the runner is 0
\* when run returned Ok, whatever the output holds, and nonzero when it
\* returned an error.
enter_main(r) == IF r = "Ok" THEN 0 ELSE 1

\* Session::kill -> signal("SIGKILL") -> signal_processes_by_session_id(sid):
\* get_child_processes_by_session_id enumerates the processes of the session.
Kill ==
    /\ rpc = "kill"
    /\ IF PostLoopKills(v)
       THEN /\ signals' = Append(signals, <<"SIGKILL", sid>>)
            /\ todo' = {p \in DOMAIN sess : Running(p)}
            /\ rpc' = "broadcast"
            /\ UNCHANGED result
       ELSE /\ rpc' = "returned"
            /\ result' = RunResult
            /\ UNCHANGED <<signals, todo>>
    /\ UNCHANGED <<sigcall, target, variant, program, stdin_bytes, sid, sess, timeout, ctrl_c, v,
                   cmd_output>>
    /\ UNCHANGED <<dbVars, servVars, auxVars>>

\* The enumeration fails (psutil::process::all()?): kill() returns the error.
KillEnumerateFail ==
    /\ rpc = "kill"
    /\ PostLoopKills(v)
    /\ signals' = Append(signals, <<"SIGKILL", sid>>)
    /\ rpc' = "returned"
    /\ result' = Fail("kill")
    /\ UNCHANGED <<sigcall, target, variant, program, stdin_bytes, sid, sess, timeout, ctrl_c, v,
                   cmd_output, todo>>
    /\ UNCHANGED <<dbVars, servVars, auxVars>>

\* The broadcast comes to p: UniqueProcessId::from_pid(p) finds a process
\* alive under the pid, and it equals the enumerated identity (same pid,
\* same start time). kill(2) is the next call.
BroadcastResolve(p) ==
    /\ rpc = "broadcast"
    /\ target = NoChild
    /\ p \in todo
    /\ Running(p)
    /\ target' = p
    /\ todo' = todo \ {p}
    /\ UNCHANGED <<sigcall, variant, program, stdin_bytes, rpc, sid, sess, timeout, ctrl_c, v,
                   cmd_output, signals, result>>
    /\ UNCHANGED <<dbVars, servVars, auxVars>>

\* from_pid(p) finds p gone ("already terminated"), or finds another
\* identity under the pid ("was reused?"): no kill, the loop goes on. The
\* field skipped keeps which of the two was logged for p.
BroadcastSkip(p) ==
    /\ rpc = "broadcast"
    /\ target = NoChild
    /\ p \in todo
    /\ ~Running(p)
    /\ todo' = todo \ {p}
    /\ sess' = [sess EXCEPT ![p].skipped = IF Alive(p) THEN "reused" ELSE "terminated"]
    /\ UNCHANGED <<sigcall, target, variant, program, stdin_bytes, rpc, sid, timeout,
                   ctrl_c, v, cmd_output, signals, result>>
    /\ UNCHANGED <<dbVars, servVars, auxVars>>

\* nix::sys::signal::kill(pid, SIGKILL) succeeds: whatever process has the
\* pid at this moment is killed.
BroadcastKill ==
    /\ rpc = "broadcast"
    /\ target # NoChild
    /\ Alive(target)
    /\ sess' = [sess EXCEPT ![target].state = "exited",
                            ![target].killed = @ \/ ~sess[target].reused]
    /\ target' = NoChild
    /\ UNCHANGED <<sigcall, variant, program, stdin_bytes, rpc, sid, timeout, ctrl_c, v,
                   cmd_output, todo, signals, result>>
    /\ UNCHANGED <<dbVars, servVars, auxVars>>

\* kill(pid, SIGKILL) fails (ESRCH when the process has ended since the
\* re-resolution, EPERM): `?` ends the broadcast with the error. target
\* keeps the pid the delivery failed for.
BroadcastKillFail ==
    /\ rpc = "broadcast"
    /\ target # NoChild
    /\ rpc' = "returned"
    /\ result' = Fail("kill")
    /\ UNCHANGED <<sigcall, target, variant, program, stdin_bytes, sid, sess, timeout, ctrl_c, v,
                   cmd_output, todo, signals>>
    /\ UNCHANGED <<dbVars, servVars, auxVars>>

\* The broadcast is through: kill() is Ok, start returns Ok(()), run returns.
BroadcastDone ==
    /\ rpc = "broadcast"
    /\ todo = {}
    /\ target = NoChild
    /\ rpc' = "returned"
    /\ result' = RunResult
    /\ UNCHANGED <<sigcall, target, variant, program, stdin_bytes, sid, sess, timeout, ctrl_c, v,
                   cmd_output, todo, signals>>
    /\ UNCHANGED <<dbVars, servVars, auxVars>>

\* The Session and the Child handle go out of scope. session.rs has no Drop
\* and sets kill_on_drop(false): nothing is signalled. adhoc.rs sets
\* kill_on_drop(true): the child itself, if it still runs, is killed.
Drop ==
    /\ rpc = "returned"
    /\ rpc' = "dropped"
    /\ IF variant = "adhoc" /\ Running(Leader)
       THEN sess' = [sess EXCEPT ![Leader].state = "exited", ![Leader].killed = TRUE]
       ELSE UNCHANGED sess
    /\ UNCHANGED <<sigcall, target, variant, program, stdin_bytes, sid, timeout, ctrl_c, v,
                   cmd_output, todo, signals, result>>
    /\ UNCHANGED <<dbVars, servVars, auxVars>>

\* A process the leader has started ends by itself and is reaped by its
\* parent.
DescendantExit(p) ==
    /\ p # Leader
    /\ Running(p)
    /\ sess' = [sess EXCEPT ![p].state = "exited"]
    /\ UNCHANGED <<sigcall, target, variant, program, stdin_bytes, rpc, sid, timeout, ctrl_c, v,
                   cmd_output, todo, signals, result>>
    /\ UNCHANGED <<dbVars, servVars, auxVars>>

\* The pid of a process that has ended and has been reaped is given to a
\* new process, which is not of the session and has another start time. The
\* leader is a child of the runner: while the broadcast runs nothing reaps
\* it, so its pid stays taken.
PidReuse(p) ==
    /\ p # Leader
    /\ p \in DOMAIN sess
    /\ sess[p].state = "exited"
    /\ ~sess[p].reused
    /\ sess' = [sess EXCEPT ![p].state = "running", ![p].reused = TRUE]
    /\ UNCHANGED <<sigcall, target, variant, program, stdin_bytes, rpc, sid, timeout, ctrl_c, v,
                   cmd_output, todo, signals, result>>
    /\ UNCHANGED <<dbVars, servVars, auxVars>>

\* The steps of the task that runs Session::start.
RunStep ==
    \/ SpawnFail
    \/ Spawn
    \/ WriteStdin
    \/ WriteStdinFail
    \/ SelectTimeout
    \/ SelectCtrlC
    \/ SelectExit
    \/ Kill
    \/ KillEnumerateFail
    \/ \E p \in 1..MaxProcs : BroadcastResolve(p)
    \/ \E p \in 1..MaxProcs : BroadcastSkip(p)
    \/ BroadcastKill
    \/ BroadcastKillFail
    \/ BroadcastDone
    \/ Drop

RunNext ==
    \/ RunStep
    \/ \E sig \in SignalNames : Signal(sig)
    \/ Tick
    \/ SigInt
    \/ LeaderExit
    \/ Fork
    \/ \E p \in 1..MaxProcs : DescendantExit(p)
    \/ \E p \in 1..MaxProcs : PidReuse(p)

RunSpec == RunInit /\ [][RunNext]_vars

\* The runtime polls the task whenever it can go on, time passes, and a
\* program that is about to end ends. No SIGINT and no fork has to come.
FairRunSpec ==
    /\ RunSpec
    /\ WF_vars(RunStep)
    /\ WF_vars(Tick)
    /\ WF_vars(LeaderExit)

\* ================================================ HTTP server (server.rs)
\* Server::serve: the handlers of the routes, each on the connection of one
\* client, over Db = Arc<Mutex<Slab<Job>>>; the main task selects over the
\* interrupt and the server. A handler is synchronous: from db.lock() to its
\* return it holds the Mutex, and it is one step unless it blocks in between.
ServIds == 0..MaxSessions
\* "sleep" never ends by itself, "exit" ends at some time.
ServScripts == {"sleep", "exit"}

\* The server accepts a request on the connection of c and calls the handler
\* of its route, which first locks the Mutex. Which route it is, and with
\* which arguments, is read by the handler, and is drawn there.
Request(c) ==
    /\ UNCHANGED <<dbVars, runVars, auxVars>>
    /\ server = "serving"
    /\ handler[c].pc = "idle"
    /\ handler' = [handler EXCEPT ![c].pc = "lock"]
    /\ reply' = NoReply
    /\ UNCHANGED <<sjobs, children, mutex, interrupt, server, sissued, torn, made>>

\* db.lock().unwrap() returns only while nobody holds the Mutex.
Locked(c) == handler[c].pc = "lock" /\ mutex = NoClient

\* The handler of c returns: the MutexGuard is dropped, the response is r.
Respond(c, r) ==
    /\ reply' = r
    /\ handler' = [handler EXCEPT ![c] = NoHandler]
    /\ mutex' = NoClient

MkReply(op, id, status, job) ==
    [op |-> op, id |-> id, status |-> status, uid |-> job.uid,
     started |-> job.session # NoChild]

\* POST /jobs: create.build() makes the working directory (wrk_dir is Some
\* from then on), create.start() spawns `setsid -w run`, jobs.insert(create),
\* the response carries the key.
serv_create_job(c) ==
    /\ UNCHANGED <<dbVars, runVars, auxVars>>
    /\ Locked(c)
    /\ made < MaxSessions
    /\ \E script \in ServScripts :
       LET job == [uid |-> made + 1, session |-> Len(children) + 1, wrk_dir |-> TRUE] IN
        /\ children' = Append(children, [script |-> script, state |-> "running",
                                         termed |-> FALSE])
        /\ sjobs' = Slab_insert(sjobs, job)
        /\ sissued' = Append(sissued, sjobs.next)
        /\ made' = made + 1
        /\ Respond(c, MkReply("create_job", sjobs.next, 200, job))
    /\ UNCHANGED <<interrupt, server, torn>>

\* DELETE /jobs/:id: jobs.remove(id) and 204 if the slab contains id, the
\* removed Job is dropped; 404 if not.
serv_delete_job(c) ==
    /\ UNCHANGED <<dbVars, runVars, auxVars>>
    /\ Locked(c)
    /\ \E id \in ServIds :
        IF Slab_contains(sjobs, id)
        THEN LET job == sjobs.entries[id + 1].val IN
             /\ sjobs' = Slab_remove(sjobs, id)
             /\ children' = DropJobs(children, {job})
             /\ Respond(c, MkReply("delete_job", id, 204, job))
        ELSE /\ Respond(c, MkReply("delete_job", id, 404, NoServJob))
             /\ UNCHANGED <<sjobs, children>>
    /\ UNCHANGED <<interrupt, server, sissued, torn, made>>

\* PUT /jobs/:id: jobs[id] = update and 200 if the slab contains id, the Job
\* stored before is dropped and the new one is neither built (its wrk_dir
\* is None, the field is skipped in the JSON) nor started; 404 if not.
serv_update_job(c) ==
    /\ UNCHANGED <<dbVars, runVars, auxVars>>
    /\ Locked(c)
    /\ made < MaxSessions
    /\ \E id \in ServIds :
        IF Slab_contains(sjobs, id)
        THEN LET job == sjobs.entries[id + 1].val IN
             /\ sjobs' = Slab_set(sjobs, id, [uid |-> made + 1, session |-> NoChild,
                                              wrk_dir |-> FALSE])
             /\ children' = DropJobs(children, {job})
             /\ made' = made + 1
             /\ Respond(c, MkReply("update_job", id, 200, job))
        ELSE /\ Respond(c, MkReply("update_job", id, 404, NoServJob))
             /\ UNCHANGED <<sjobs, children, made>>
    /\ UNCHANGED <<interrupt, server, sissued, torn>>

\* GET /jobs/:id: 404 if the slab does not contain id; else Job::wait takes
\* self.session and blocks in child.wait_with_output().wait(), the Mutex
\* held; a Job without a session answers at once.
serv_wait_job(c) ==
    /\ UNCHANGED <<dbVars, runVars, auxVars>>
    /\ Locked(c)
    /\ \E id \in ServIds :
        IF ~Slab_contains(sjobs, id)
        THEN /\ Respond(c, MkReply("wait_job", id, 404, NoServJob))
             /\ UNCHANGED sjobs
        ELSE LET job == sjobs.entries[id + 1].val IN
             IF job.session = NoChild
             THEN /\ Respond(c, MkReply("wait_job", id, 204, job))
                  /\ UNCHANGED sjobs
             ELSE /\ sjobs' = Slab_set(sjobs, id, [job EXCEPT !.session = NoChild])
                  /\ mutex' = c
                  /\ handler' = [handler EXCEPT ![c].pc = "wait", ![c].child = job.session]
                  /\ reply' = NoReply
    /\ UNCHANGED <<children, interrupt, server, sissued, torn, made>>

\* The child has ended: Job::wait returns, the handler answers 204.
serv_wait_done(c) ==
    /\ UNCHANGED <<dbVars, runVars, auxVars>>
    /\ handler[c].pc = "wait"
    /\ children[handler[c].child].state = "exited"
    /\ Respond(c, [NoReply EXCEPT !.op = "wait_job", !.status = 204, !.started = TRUE])
    /\ UNCHANGED <<sjobs, children, interrupt, server, sissued, torn, made>>

\* GET /jobs: the keys of the slab.
list_jobs(c) ==
    /\ UNCHANGED <<dbVars, runVars, auxVars>>
    /\ Locked(c)
    /\ Respond(c, MkReply("list_jobs", 0, 200, NoServJob))
    /\ UNCHANGED <<sjobs, children, interrupt, server, sissued, torn, made>>

\* DELETE /jobs, first half: jobs.clear() drops every Job.
shutdown_server(c) ==
    /\ UNCHANGED <<dbVars, runVars, auxVars>>
    /\ Locked(c)
    /\ sjobs' = Slab_clear(sjobs)
    /\ children' = DropJobs(children, Slab_jobs(sjobs))
    /\ torn' = torn \cup {j.uid : j \in Slab_jobs(sjobs)}
    /\ mutex' = c
    /\ handler' = [handler EXCEPT ![c].pc = "signal"]
    /\ reply' = NoReply
    /\ UNCHANGED <<interrupt, server, sissued, made>>

\* A shutdown that raises no signal.
send_signal_none(pending) == pending

\* send_signal(SIGINT): kill(getpid(), SIGINT), the signal is pending.
send_signal(pending) == TRUE

\* DELETE /jobs, second half: send_signal(SIGINT), the response is 204.
shutdown_signal(c) ==
    /\ UNCHANGED <<dbVars, runVars, auxVars>>
    /\ handler[c].pc = "signal"
    /\ interrupt' = send_signal(interrupt)
    /\ Respond(c, [NoReply EXCEPT !.op = "shutdown_server", !.status = 204])
    /\ UNCHANGED <<sjobs, children, server, sissued, torn, made>>

\* SIGINT reaches the server process from outside.
Interrupt ==
    /\ UNCHANGED <<dbVars, runVars, auxVars>>
    /\ server = "serving"
    /\ ~interrupt
    /\ interrupt' = TRUE
    /\ UNCHANGED <<sjobs, children, mutex, handler, server, reply, sissued, torn, made>>

\* The main task: ctrl_c yields, tx.send(()), select2 resolves with the
\* interrupt's side and map drops the server with its listener and routes.
MainSelect ==
    /\ UNCHANGED <<dbVars, runVars, auxVars>>
    /\ interrupt
    /\ server = "serving"
    /\ server' = "closed"
    /\ UNCHANGED <<sjobs, children, mutex, handler, interrupt, reply, sissued, torn, made>>

\* The last Arc of the Db goes with the last handler that is at work: the
\* slab is dropped and with it every Job that is in it.
DropDb ==
    /\ UNCHANGED <<dbVars, runVars, auxVars>>
    /\ server = "closed"
    /\ \A c \in Clients : handler[c].pc = "idle"
    /\ sjobs' = Slab_new
    /\ children' = DropJobs(children, Slab_jobs(sjobs))
    /\ server' = "dropped"
    /\ UNCHANGED <<mutex, handler, interrupt, reply, sissued, torn, made>>

\* tokio::run returns once no task is left: the tasks that save stdout and
\* stderr of a child end when the child has ended.
MainReturn ==
    /\ UNCHANGED <<dbVars, runVars, auxVars>>
    /\ server = "dropped"
    /\ \A p \in DOMAIN children : children[p].state = "exited"
    /\ server' = "stopped"
    /\ UNCHANGED <<sjobs, children, mutex, handler, interrupt, reply, sissued, torn, made>>

\* A child whose script ends by itself ends.
ServChildExit(p) ==
    /\ UNCHANGED <<dbVars, runVars, auxVars>>
    /\ p \in DOMAIN children
    /\ children[p].script = "exit"
    /\ children[p].state = "running"
    /\ children' = [children EXCEPT ![p].state = "exited"]
    /\ UNCHANGED <<sjobs, mutex, handler, interrupt, server, reply, sissued, torn, made>>

Handle(c) ==
    \/ serv_create_job(c)
    \/ serv_delete_job(c)
    \/ serv_update_job(c)
    \/ serv_wait_job(c)
    \/ serv_wait_done(c)
    \/ list_jobs(c)
    \/ shutdown_server(c)
    \/ shutdown_signal(c)

ServNext ==
    \/ \E c \in Clients : Request(c)
    \/ \E c \in Clients : Handle(c)
    \/ Interrupt
    \/ MainSelect
    \/ DropDb
    \/ MainReturn
    \/ \E p \in 1..MaxSessions : ServChildExit(p)

ServSpec == Init /\ [][ServNext]_vars

\* The runtime runs every handler and the main task whenever they can go on,
\* and a script that is about to end ends. No request and no SIGINT from
\* outside has to come.
FairServSpec ==
    /\ ServSpec
    /\ \A c \in Clients : WF_vars(Handle(c))
    /\ WF_vars(MainSelect)
    /\ WF_vars(DropDb)
    /\ WF_vars(MainReturn)
    /\ \A p \in 1..MaxSessions : WF_vars(ServChildExit(p))

\* The server with the routes that make and remove jobs and the one that
\* shuts it down.
MainHandle(c) ==
    \/ serv_create_job(c)
    \/ serv_delete_job(c)
    \/ shutdown_server(c)
    \/ shutdown_signal(c)

MainNext ==
    \/ \E c \in Clients : Request(c)
    \/ \E c \in Clients : MainHandle(c)
    \/ Interrupt
    \/ MainSelect
    \/ DropDb
    \/ MainReturn
    \/ \E p \in 1..MaxSessions : ServChildExit(p)

MainSpec == Init /\ [][MainNext]_vars

\* The runtime polls the main task whenever it can go on; nothing else has
\* to happen.
FairMainSpec == MainSpec /\ WF_vars(MainSelect)

\* The handler panics with the MutexGuard alive: the request gets no
\* response and the Mutex is poisoned.
Poisoned == "poisoned"
Panic(c, op, id) ==
    /\ reply' = [NoReply EXCEPT !.op = op, !.id = id]
    /\ handler' = [handler EXCEPT ![c] = NoHandler]
    /\ mutex' = Poisoned

\* Job::wrk_dir panics with "no working dir!" when the field is None. The
\* three routes of the files of a job call it once the slab contains id.
\* GET /jobs/:id/files: the list of the regular files of the directory.
serv_list_job_files(c) ==
    /\ UNCHANGED <<dbVars, runVars, auxVars>>
    /\ Locked(c)
    /\ \E id \in ServIds :
        IF ~Slab_contains(sjobs, id)
        THEN Respond(c, MkReply("list_job_files", id, 404, NoServJob))
        ELSE LET job == sjobs.entries[id + 1].val IN
             IF job.wrk_dir
             THEN Respond(c, MkReply("list_job_files", id, 200, job))
             ELSE Panic(c, "list_job_files", id)
    /\ UNCHANGED <<sjobs, children, interrupt, server, sissued, torn, made>>

\* GET /jobs/:id/files/:name: the content, 404 when File::open fails.
serv_get_job_file(c) ==
    /\ UNCHANGED <<dbVars, runVars, auxVars>>
    /\ Locked(c)
    /\ \E id \in ServIds, opened \in BOOLEAN :
        IF ~Slab_contains(sjobs, id)
        THEN Respond(c, MkReply("get_job_file", id, 404, NoServJob))
        ELSE LET job == sjobs.entries[id + 1].val IN
             IF job.wrk_dir
             THEN Respond(c, MkReply("get_job_file", id, IF opened THEN 200 ELSE 404, job))
             ELSE Panic(c, "get_job_file", id)
    /\ UNCHANGED <<sjobs, children, interrupt, server, sissued, torn, made>>

\* PUT /jobs/:id/files/:name: File::create and write, 404 when create fails.
serv_put_job_file(c) ==
    /\ UNCHANGED <<dbVars, runVars, auxVars>>
    /\ Locked(c)
    /\ \E id \in ServIds, created \in BOOLEAN :
        IF ~Slab_contains(sjobs, id)
        THEN Respond(c, MkReply("put_job_file", id, 404, NoServJob))
        ELSE LET job == sjobs.entries[id + 1].val IN
             IF job.wrk_dir
             THEN Respond(c, MkReply("put_job_file", id, IF created THEN 200 ELSE 404, job))
             ELSE Panic(c, "put_job_file", id)
    /\ UNCHANGED <<sjobs, children, interrupt, server, sissued, torn, made>>

\* db.lock().unwrap() on the poisoned Mutex: every later handler panics at
\* its first statement.
serv_lock_poisoned(c) ==
    /\ UNCHANGED <<dbVars, runVars, auxVars>>
    /\ handler[c].pc = "lock"
    /\ mutex = Poisoned
    /\ reply' = [NoReply EXCEPT !.op = "lock"]
    /\ handler' = [handler EXCEPT ![c] = NoHandler]
    /\ UNCHANGED <<sjobs, children, mutex, interrupt, server, sissued, torn, made>>

\* The server with the routes that make, replace and remove jobs and those
\* of their files.
ServFileHandle(c) ==
    \/ serv_create_job(c)
    \/ serv_delete_job(c)
    \/ serv_update_job(c)
    \/ serv_list_job_files(c)
    \/ serv_get_job_file(c)
    \/ serv_put_job_file(c)
    \/ serv_lock_poisoned(c)

ServFileNext ==
    \/ \E c \in Clients : Request(c)
    \/ \E c \in Clients : ServFileHandle(c)
    \/ \E p \in 1..MaxSessions : ServChildExit(p)

ServFileSpec == Init /\ [][ServFileNext]_vars

\* ============================================================ Server::new
\* Server::new(addr) of server.rs: resolve the name, choose the address to
\* bind. The socket addresses a name can resolve to: two IPv4, two IPv6.
MaxAddrs == 3
SockAddrs == {"v4a", "v4b", "v6a", "v6b"}
is_ipv4(a) == a \in {"v4a", "v4b"}

\* to_socket_addrs() returned Err, or Ok with the addresses.
BadAddress == [ok |-> FALSE, list |-> <<>>]
Resolved(list) == [ok |-> TRUE, list |-> list]

\* The address lists of 0..MaxAddrs addresses.
AddrLists == UNION {[1..n -> SockAddrs] : n \in 0..MaxAddrs}

\* Server::new: expect("bad address"); match addrs.len(): 0 panics, 1 takes
\* addrs[0], more take the first IPv4 address and panic when there is none.
Server_new(resolved) ==
    IF ~resolved.ok THEN "panic"
    ELSE IF Len(resolved.list) = 0 THEN "panic"
    ELSE IF Len(resolved.list) = 1 THEN resolved.list[1]
    ELSE LET ipv4addrs == SelectSeq(resolved.list, is_ipv4)
         IN  IF Len(ipv4addrs) = 0 THEN "panic" ELSE ipv4addrs[1]

\* bind(addr) / run(addr): `let server = Server::new(addr)`.
NewServer ==
    /\ address = "none"
    /\ address' = Server_new(addrs)
    /\ UNCHANGED addrs
    /\ UNCHANGED <<dbVars, runVars, servVars, stderr_pipe, local, framed>>

AddrInit ==
    /\ DbInit
    /\ RunIdle
    /\ ServerNew
    /\ PipesIdle
    /\ LocalIdle
    /\ FramedIdle
    /\ addrs \in {Resolved(l) : l \in AddrLists} \cup {BadAddress}
    /\ address = "none"

AddrNext == NewServer

AddrSpec == AddrInit /\ [][AddrNext]_vars

\* ================================================= run_adhoc_input_output
\* run_adhoc_input_output of local.rs: a thread runs `setsid -w program`
\* and sends CmdResult::Pid and then CmdResult::Output over a channel of
\* capacity 1; a thread sends the signals over another; the caller selects
\* over the two channels and the timeout channel in a loop.
LocalSignals == {"SIGINT", "SIGCONT", "SIGUSR1"}

\* The sender of runcmd_events is dropped when the thread's closure ends, by
\* returning or by a panic; the receiver when the caller returns.
SenderDropped == local.thread \in {"ended", "panicked"}
ReceiverDropped == local.main = "returned"

\* The command thread: Command::spawn().expect(..) and
\* sender.send(CmdResult::Pid(pid)), whose result is dropped.
ThreadSpawn ==
    /\ local.thread = "spawn"
    /\ \/ local' = [local EXCEPT !.thread = "running",
                                  !.runcmd_events =
                                      IF ReceiverDropped THEN @ ELSE Append(@, "Pid")]
       \/ local' = [local EXCEPT !.thread = "panicked"]
    /\ UNCHANGED <<addrVars, stderr_pipe, framed, dbVars, runVars, servVars>>

\* The command thread: the write to stdin and wait_with_output succeed, then
\* sender.send(CmdResult::Output(..)), which waits for room in the channel
\* while the receiver is alive; the closure returns.
ThreadOutput ==
    /\ local.thread = "running"
    /\ local.runcmd_events = <<>> \/ ReceiverDropped
    /\ local' = [local EXCEPT !.thread = "ended",
                              !.runcmd_events =
                                  IF ReceiverDropped THEN @ ELSE Append(@, "Output")]
    /\ UNCHANGED <<addrVars, stderr_pipe, framed, dbVars, runVars, servVars>>

\* The command thread: expect("Failed to write to stdin") or
\* expect("Failed to read stdout") panics.
ThreadPanic ==
    /\ local.thread = "running"
    /\ local' = [local EXCEPT !.thread = "panicked"]
    /\ UNCHANGED <<addrVars, stderr_pipe, framed, dbVars, runVars, servVars>>

\* The signal thread sends a signal that has come; it runs forever, so its
\* sender is never dropped.
SignalArrives(sig) ==
    /\ ~ReceiverDropped
    /\ local.signal_events = <<>>
    /\ local' = [local EXCEPT !.signal_events = <<sig>>]
    /\ UNCHANGED <<addrVars, stderr_pipe, framed, dbVars, runVars, servVars>>

\* cbchan::after(d) delivers its message when d has passed; cbchan::never()
\* never does.
TimeoutFires ==
    /\ local.timeout = "armed"
    /\ local' = [local EXCEPT !.timeout = "fired"]
    /\ UNCHANGED <<addrVars, stderr_pipe, framed, dbVars, runVars, servVars>>

\* select!, recv(signal_events): SIGINT and SIGTERM set kill and break;
\* SIGCONT and SIGUSR1 call resume_session or pause_session with `?` when
\* the session id is known, and only log when it is not.
RecvSignal ==
    /\ local.main = "select"
    /\ local.signal_events # <<>>
    /\ LET sig == Head(local.signal_events)
           got == [local EXCEPT !.signal_events = <<>>]
       IN  IF sig = "SIGINT"
           THEN local' = [got EXCEPT !.kill = TRUE, !.main = "kill"]
           ELSE IF local.session_id > 0
           THEN \/ local' = got
                \/ local' = [got EXCEPT !.main = "returned", !.result = "Err"]
           ELSE local' = got
    /\ UNCHANGED <<addrVars, stderr_pipe, framed, dbVars, runVars, servVars>>

\* select!, recv(runcmd_events) with a message: Pid sets session_id and the
\* loop goes on, Output is stored and breaks the loop.
RecvCmd ==
    /\ local.main = "select"
    /\ local.runcmd_events # <<>>
    /\ LET msg == Head(local.runcmd_events)
           got == [local EXCEPT !.runcmd_events = Tail(@)]
       IN  IF msg = "Output"
           THEN local' = [got EXCEPT !.kill = FALSE, !.cmd_output = "out", !.main = "kill"]
           ELSE local' = [got EXCEPT !.session_id = 1]
    /\ UNCHANGED <<addrVars, stderr_pipe, framed, dbVars, runVars, servVars>>

\* select!, recv(runcmd_events) on the empty channel whose sender is
\* dropped: the receive is ready at once with Err; the branch logs "found
\* error" and does not break, so the loop selects again.
RecvDisconnected ==
    /\ local.main = "select"
    /\ local.runcmd_events = <<>>
    /\ SenderDropped
    /\ local' = [local EXCEPT !.logged = TRUE]
    /\ UNCHANGED <<addrVars, stderr_pipe, framed, dbVars, runVars, servVars>>

\* select!, recv(timeout): kill is set, the loop breaks.
RecvTimeout ==
    /\ local.main = "select"
    /\ local.timeout = "fired"
    /\ local' = [local EXCEPT !.kill = TRUE, !.main = "kill"]
    /\ UNCHANGED <<addrVars, stderr_pipe, framed, dbVars, runVars, servVars>>

\* After the loop: kill_session(session_id)? or kill_child_processes()? when
\* kill is set, then Ok(cmd_output).
AfterLoop ==
    /\ local.main = "kill"
    /\ \/ local' = [local EXCEPT !.main = "returned", !.result = "Ok"]
       \/ /\ local.kill
          /\ local' = [local EXCEPT !.main = "returned", !.result = "Err"]
    /\ UNCHANGED <<addrVars, stderr_pipe, framed, dbVars, runVars, servVars>>

\* args.timeout is None or Some(t).
LocalInit ==
    /\ DbInit
    /\ RunIdle
    /\ ServerNew
    /\ AddrIdle
    /\ PipesIdle
    /\ FramedIdle
    /\ local \in {[NoLocal EXCEPT !.timeout = t] : t \in {"never", "armed"}}

LocalStep ==
    \/ RecvSignal
    \/ RecvCmd
    \/ RecvDisconnected
    \/ RecvTimeout
    \/ AfterLoop

ThreadStep ==
    \/ ThreadSpawn
    \/ ThreadOutput
    \/ ThreadPanic

LocalNext ==
    \/ LocalStep
    \/ ThreadStep
    \/ TimeoutFires
    \/ \E sig \in LocalSignals : SignalArrives(sig)

LocalSpec == LocalInit /\ [][LocalNext]_vars

\* The caller and the command thread run whenever they can, and a timer
\* that is armed fires. No signal has to come.
FairLocalSpec ==
    /\ LocalSpec
    /\ WF_vars(LocalStep)
    /\ WF_vars(ThreadStep)
    /\ WF_vars(TimeoutFires)

\* ========================================================== nailgun Codec
\* The Decoder of bin/ng.rs. A frame on the wire is a header of HEADER_SIZE
\* bytes, the length of the payload as a big-endian u32 and one byte for the
\* type of the chunk, and then the payload.
HEADER_SIZE == 5
MaxFrames == 2
MaxPayload == 1

\* The type bytes b'X', b'1', b'2', b'S', and the bytes of the payloads.
ChunkTypes == {88, 49, 50, 83}
PayloadBytes == {0, 49}

Payloads == UNION {[1..n -> PayloadBytes] : n \in 0..MaxPayload}
Frames == [type : ChunkTypes, payload : Payloads]

\* The bytes of a frame as the nailgun server sends them.
FrameBytes(f) == <<0, 0, 0, Len(f.payload), f.type>> \o f.payload

RECURSIVE StreamBytes(_)
StreamBytes(fs) == IF fs = <<>> THEN <<>> ELSE FrameBytes(Head(fs)) \o StreamBytes(Tail(fs))

Streams == UNION {[1..n -> Frames] : n \in 1..MaxFrames}

\* Buf::get_u32_be on the first four bytes of the header.
get_u32_be(h) == ((h[1] * 256 + h[2]) * 256 + h[3]) * 256 + h[4]

NoItem == [chunk |-> "None", payload |-> <<>>]
Unimplemented == [chunk |-> "panic", payload |-> <<>>]

\* The match on header.get_u8(): Exit(0) whatever the payload holds.
ChunkOf(type, payload) ==
    IF type = 88 THEN [chunk |-> "Exit", payload |-> <<>>]
    ELSE IF type = 49 THEN [chunk |-> "Stdout", payload |-> payload]
    ELSE IF type = 50 THEN [chunk |-> "Stderr", payload |-> payload]
    ELSE IF type = 83 THEN [chunk |-> "StartReadingStdin", payload |-> <<>>]
    ELSE Unimplemented

\* Codec::decode(buf): Ok(None) while buf is shorter than a header; then
\* buf.split_to(HEADER_SIZE) takes the header out of buf; Ok(None) while buf
\* is shorter than the length; else buf.split_to(length) is the payload.
\* The result is the item and what is left in buf.
Codec_decode(buf) ==
    IF Len(buf) < HEADER_SIZE
    THEN [item |-> NoItem, buf |-> buf]
    ELSE LET header == SubSeq(buf, 1, HEADER_SIZE)
             rest == SubSeq(buf, HEADER_SIZE + 1, Len(buf))
             length == get_u32_be(header)
         IN  IF Len(rest) < length
             THEN [item |-> NoItem, buf |-> rest]
             ELSE [item |-> ChunkOf(header[HEADER_SIZE], SubSeq(rest, 1, length)),
                   buf |-> SubSeq(rest, length + 1, Len(rest))]

\* The chunks decode yields when it is called again and again on a buffer
\* that holds the whole stream.
RECURSIVE DecodeAll(_)
DecodeAll(buf) ==
    LET d == Codec_decode(buf)
    IN  IF d.item = NoItem \/ d.item = Unimplemented THEN <<>>
        ELSE <<d.item>> \o DecodeAll(d.buf)

\* The socket delivers the next n bytes of the stream: they are appended to
\* buf, and the framed stream calls decode.
Read(n) ==
    /\ ~framed.panicked
    /\ ~framed.readable
    /\ framed.arrived + n <= Len(framed.stream)
    /\ framed' = [framed EXCEPT
                      !.arrived = @ + n,
                      !.buf = @ \o SubSeq(framed.stream, framed.arrived + 1, framed.arrived + n),
                      !.readable = TRUE]
    /\ UNCHANGED <<addrVars, stderr_pipe, local, dbVars, runVars, servVars>>

\* The framed stream calls decode(buf): a chunk is yielded and decode is
\* called again; on Ok(None) the stream waits for more bytes; unimplemented!()
\* panics.
Decode ==
    /\ ~framed.panicked
    /\ framed.readable
    /\ LET d == Codec_decode(framed.buf)
       IN  IF d.item = Unimplemented
           THEN framed' = [framed EXCEPT !.panicked = TRUE, !.readable = FALSE]
           ELSE IF d.item = NoItem
           THEN framed' = [framed EXCEPT !.buf = d.buf, !.readable = FALSE]
           ELSE framed' = [framed EXCEPT !.buf = d.buf, !.chunks = Append(@, d.item)]
    /\ UNCHANGED <<addrVars, stderr_pipe, local, dbVars, runVars, servVars>>

\* Codec.framed(socket) on a socket that will carry the bytes of some frames.
CodecInit ==
    /\ DbInit
    /\ RunIdle
    /\ ServerNew
    /\ AddrIdle
    /\ PipesIdle
    /\ LocalIdle
    /\ framed \in {[NoFramed EXCEPT !.stream = StreamBytes(fs)] : fs \in Streams}

CodecNext ==
    \/ \E n \in 1..(MaxFrames * (HEADER_SIZE + MaxPayload)) : Read(n)
    \/ Decode

CodecSpec == CodecInit /\ [][CodecNext]_vars

\* ================================================================ claims
\* The ids check_job and the SlotMap both know: the jobs in the registry.
LiveIds == {p[1] : p \in {q \in jobs.mapping : SlotMap_contains(jobs, q[2])}}

\* C1: the JobId an insert_job returns differs from every JobId an earlier
\* insert_job of the same registry returned, deleted and cleared jobs included.
C1_IdsNeverReused ==
    \A i, j \in 1..Len(issued) : i # j => issued[i] # issued[j]

\* An insert_job has returned an id after a job had been removed.
C1_Witness ==
    /\ ret.op = "insert_job" /\ ret.val = "Ok"
    /\ Len(issued) >= 2
    /\ Cardinality(LiveIds) < Len(issued)

\* C2: the n-th insert_job that returns returns JobId n.
C2_NthInsertReturnsN ==
    \A n \in 1..Len(issued) : issued[n] = n

\* The second insert_job has returned while the first job was already gone.
C2_Witness ==
    /\ ret.op = "insert_job" /\ ret.id = 2
    /\ LiveIds = {2}

\* C3 as claimed: an update_job of a job in the registry that wait_job has
\* started fails with AlreadyStarted (taken for the jobs whose child has run
\* to its end, so that the wait_job that started it has returned).
C3_UpdateFailsOnceStarted ==
    (/\ ret.op = "update_job"
     /\ ret.arg \in LiveIds
     /\ \E p \in DOMAIN procs : procs[p].job = ret.arg /\ procs[p].state = "exited")
        => ret.val = "AlreadyStarted"

\* C4 as claimed: when a wait_job is blocked on a child that never ends and
\* another task has called delete_job, the delete_job completes and the
\* blocked wait_job returns.
C4_DeleteEndsBlockedWait ==
    \A c, d \in Clients :
        (/\ pc[c] = "start_copy"
         /\ procs[call[c].child].script = "sleep"
         /\ procs[call[c].child].state = "running"
         /\ pc[d] = "lock" /\ call[d].op = "delete_job")
            ~> (pc[d] = "idle" /\ pc[c] = "idle")

\* C8 as claimed: a task that is inside the body of an operation holds the
\* lock, and while a child that wait_job spawned is running the wait_job
\* that spawned it holds the lock.
C8_LockHeldWhileChildRuns ==
    /\ \A c \in Clients : pc[c] \notin {"idle", "lock"} => lock = c
    /\ \A p \in DOMAIN procs :
          procs[p].state = "running" => \E c \in Clients : lock = c /\ call[c].child = p

\* C9: a get_job_list that follows a get_job_list with result L and n
\* finished insert_job calls, with no delete_job or clear_jobs in between,
\* returns L and exactly n more ids.
C9_ListShowsInserts ==
    (ret.op = "get_job_list" /\ ret.pre.snap.valid)
        => /\ ret.val = "Ok"
           /\ ret.pre.snap.L \subseteq ret.list
           /\ Cardinality(ret.list) = Cardinality(ret.pre.snap.L) + ret.pre.snap.n

\* A listing of one job, an insert_job, and a second listing have happened.
C9_Witness ==
    /\ ret.op = "get_job_list"
    /\ ret.pre.snap.valid
    /\ ret.pre.snap.L # {}
    /\ ret.pre.snap.n >= 1

\* C10 as claimed: a delete_job of an id that a delete_job has removed
\* before returns NotFound.
C10_RepeatedDeleteNotFound ==
    (ret.op = "delete_job" /\ ret.arg \in ret.pre.deleted)
        => ret.val = "NotFound"

C6_EveryReturnKills ==
    (rpc = "returned" /\ sid # NoChild /\ variant = "session")
        => signals = << <<"SIGKILL", sid>> >>

\* C7: a child that never ends, with no SIGINT, is killed once the timeout
\* is over, and run returns.
C7_TimeoutEndsRun ==
    (rpc \in {"stdin", "select"} /\ program = "sleep")
        ~> (ctrl_c \/ (rpc = "returned" /\ signals # <<>>))

\* C11: update_job, wait_job, list_job_files, get_job_file and put_job_file
\* called with a JobId that denotes no job of the registry, never issued or
\* since removed, return NotFound and do not panic.
C11_UnknownIdNotFound ==
    (/\ ret.op \in {"update_job", "wait_job", "list_job_files", "get_job_file",
                    "put_job_file"}
     /\ ret.arg \notin LiveIds)
        => ret.val = "NotFound"

\* The working directory of the job stored under id.
WrkDir(id) == Jobs_index(jobs, Jobs_check_job(jobs, id)).wrk_dir

\* C12: every job of the registry has a wrk_dir that exists as a directory.
C12_WrkDirExists == \A id \in LiveIds : WrkDir(id) \in DOMAIN dirs

\* C12 happens: an update_job has replaced the session of a job, the
\* directory of the old session is gone, and the job is in the registry.
C12_Witness ==
    /\ ret.op = "update_job"
    /\ ret.val = "Ok"
    /\ ret.arg \in LiveIds
    /\ 1 \notin DOMAIN dirs

C14_RemovedJobLeavesNothing ==
    (ret.op \in {"delete_job", "clear_jobs"} /\ ret.val = "Ok")
        => /\ \A p \in DOMAIN procs :
                 procs[p].job \notin LiveIds => procs[p].state # "running"
           /\ \A d \in DOMAIN dirs : \E id \in LiveIds : WrkDir(id) = d

\* C15: a job never has more than one child at a time: while a child that a
\* wait_job on the id started is still running, a later wait_job on the id
\* spawns no second child.
C15_OneChildPerJob ==
    \A p, q \in DOMAIN procs :
        (p # q /\ procs[p].job = procs[q].job)
            => ~(procs[p].state = "running" /\ procs[q].state = "running")

\* C16: every child a job of the registry starts runs in a new session whose
\* id is the pid of the child.
C16_ChildLeadsOwnSession == \A p \in DOMAIN procs : procs[p].sid = p

\* C17: for a job whose script copies its stdin to its stdout until the end
\* of its stdin and then ends, wait_job eventually returns, and out_file
\* then holds the input of the job.
C17_CatJobCompletes ==
    \A c \in Clients :
        (pc[c] = "start_copy" /\ procs[call[c].child].script = "cat")
            ~> (/\ pc[c] = "idle"
                /\ \E d \in DOMAIN dirs : dirs[d]["job.inp"] = "abc" /\ dirs[d]["job.out"] = "abc")

\* C18: in a broadcast, a failure to deliver the signal to one pid does not
\* stop the broadcast and is not returned as an error: when run has returned
\* after a delivery failed, every enumerated process has been come to.
C18_DeliveryFailureGoesOn ==
    (rpc = "returned" /\ target # NoChild)
        => /\ todo = {}
           /\ result = RunResult

\* C19: a broadcast never delivers its signal to a process that is not one
\* of the identities enumerated for the session: a process that got the pid
\* of an ended process of the session is never killed.
C19_NoSignalToReusedPid ==
    \A p \in DOMAIN sess : ~(sess[p].reused /\ sess[p].state = "exited")

\* C20: when the Session of a spawned child is dropped without kill() having
\* been called, every process of the child's session is sent SIGKILL: none
\* is left running.
C20_DropKillsSession ==
    (rpc = "dropped" /\ sid # NoChild /\ signals = <<>>)
        => \A p \in DOMAIN sess : ~Running(p)

\* C21: signal, terminate, kill, pause or resume called on a supervisor
\* whose child has not been spawned sends no signal to any process, leaves
\* the supervisor as it was and returns success.
C21_SignalBeforeSpawnIsNoop ==
    (sigcall # NoSigCall /\ rpc = "new")
        => /\ sigcall.ret = "Ok"
           /\ signals = <<>>
           /\ sid = NoChild
           /\ sess = <<>>

\* C21 happens: terminate has been called before the child was spawned.
C21_Witness ==
    /\ rpc = "new"
    /\ sid = NoChild
    /\ sigcall = [sig |-> "SIGTERM", ret |-> "Ok"]

\* C22: for every job of the registry the build of its working directory,
\* run file and stdin file comes before any start of its child, and the
\* start comes before the wait that sees the child end: every child belongs
\* to an id that insert_job has issued, a call that is inside start or wait
\* has a spawned child that runs the script the build wrote into the job's
\* directory, and a wait_job that returns Ok has a child that has ended.
C22_BuildStartWaitInOrder ==
    /\ \A p \in DOMAIN procs : \E n \in 1..Len(issued) : issued[n] = procs[p].job
    /\ \A c \in Clients :
          pc[c] \in {"start_create", "start_copy", "wait"}
             => /\ call[c].child \in DOMAIN procs
                /\ call[c].id \in LiveIds
                /\ WrkDir(call[c].id) \in DOMAIN dirs
                /\ dirs[WrkDir(call[c].id)]["run"] = procs[call[c].child].script
                /\ dirs[WrkDir(call[c].id)]["job.inp"] # Absent
                /\ pc[c] = "wait" => procs[call[c].child].state = "exited"
    /\ (ret.op = "wait_job" /\ ret.val = "Ok")
          => \E p \in DOMAIN procs : procs[p].job = ret.arg /\ procs[p].state = "exited"

\* C22 happens: a job was built, updated, started and waited for.
C22_Witness ==
    /\ ret.op = "wait_job"
    /\ ret.val = "Ok"
    /\ ret.arg \in LiveIds
    /\ WrkDir(ret.arg) = 2
    /\ dirs[2]["job.out"] = "done"

\* C23: a child that ends with a nonzero status is a normal completion:
\* wait_job returns Ok as for a zero status, and the job stays in the
\* registry.
C23_NonzeroExitIsCompletion ==
    (/\ ret.op = "wait_job"
     /\ \E p \in DOMAIN procs :
           procs[p].job = ret.arg /\ procs[p].state = "exited" /\ procs[p].code # 0)
        => /\ ret.val = "Ok"
           /\ ret.arg \in LiveIds

\* C23 happens: wait_job has returned for a job whose child ended with
\* status 1.
C23_Witness ==
    /\ ret.op = "wait_job"
    /\ ret.val = "Ok"
    /\ \E p \in DOMAIN procs :
          procs[p].job = ret.arg /\ procs[p].state = "exited" /\ procs[p].code = 1

\* C27: put_job_file(id, name, b) followed by get_job_file(id, name), with no
\* other write to that file in between, returns exactly b, also when the file
\* held longer content before the put.
C27_PutThenGet ==
    (/\ ret.op = "get_job_file"
     /\ ret.val = "Ok"
     /\ lastput.id = ret.arg
     /\ lastput.file = ret.file)
        => ret.data = lastput.data

\* C27 happens: "a" was put over the longer "abc", and the get that followed
\* has returned.
C27_Witness ==
    /\ ret.op = "get_job_file"
    /\ ret.val = "Ok"
    /\ lastput.id = ret.arg
    /\ lastput.file = ret.file
    /\ lastput.prev = "abc"
    /\ ret.data = "a"

\* C24: in the DELETE /jobs handler the shutdown signal is raised only after
\* the registry has been cleared: when the handler is about to signal, the
\* registry holds no job, and no response that names a job names one of the
\* registry that was torn down.
C24_ClearBeforeSignal ==
    /\ \A c \in Clients : handler[c].pc = "signal" => Slab_keys(sjobs) = {}
    /\ reply.uid # 0 => reply.uid \notin torn
    /\ \A j \in Slab_jobs(sjobs) : j.uid \notin torn

\* C24 happens: a DELETE /jobs handler has cleared a registry that held a
\* job and is about to raise the signal.
C24_Witness == torn # {} /\ \E c \in Clients : handler[c].pc = "signal"

\* C25: when SIGINT reaches the server while jobs are in the registry, the
\* server eventually stops, and by then the child of every started job has
\* been signalled to terminate or has ended.
C25_InterruptStopsAndTerminates ==
    (interrupt /\ Slab_keys(sjobs) # {})
        ~> (/\ server = "stopped"
            /\ \A p \in DOMAIN children :
                  children[p].termed \/ children[p].state = "exited")

\* C26: after DELETE /jobs has been answered with 204 the server eventually
\* stops serving, and from then on it accepts no request.
C26_ShutdownStopsServing ==
    /\ (reply.op = "shutdown_server" /\ reply.status = 204) ~> (server # "serving")
    /\ [][server # "serving" =>
            /\ server' # "serving"
            /\ \A c \in Clients : handler[c].pc = "idle" => handler'[c].pc = "idle"]_vars

\* C26 happens: DELETE /jobs has been answered with 204 and the main task
\* has dropped the server.
C26_Witness ==
    /\ reply.op = "shutdown_server"
    /\ reply.status = 204
    /\ server = "closed"

\* C28: a PUT /jobs/{id} for a job that has already been started is rejected
\* with status 400 or 404, and the job stored under that id is still the one
\* that was stored before.
C28_ServUpdateRejectedAfterStart ==
    (reply.op = "update_job" /\ reply.started)
        => /\ reply.status \in {400, 404}
           /\ Slab_contains(sjobs, reply.id)
           /\ sjobs.entries[reply.id + 1].val.uid = reply.uid

\* C29: the ids returned by POST /jobs are never reused: no two POST
\* responses of one server carry the same id.
C29_ServIdsNeverReused ==
    \A m, n \in 1..Len(sissued) : m # n => sissued[m] # sissued[n]

\* C30: the local runner ends with exit code 0 exactly when the child ended
\* with a success status; a failure status, a timeout and an interrupt each
\* give a nonzero exit code.
C30_ExitCodeFollowsChild ==
    (variant = "session" /\ result # "none")
        => (enter_main(result) = 0
               <=> (v = "exit" /\ cmd_output /\ program # "false"))

\* C31: clear_jobs never fails and is idempotent: a clear_jobs on the
\* registry a clear_jobs has left changes nothing more; no job is stored and
\* the next id to issue is the same as after the first clear.
C31_ClearIsIdempotent ==
    LET once == Jobs_clear(jobs)
        twice == Jobs_clear(once)
    IN  /\ twice = once
        /\ SlotMap_keys(once) = {}
        /\ LiveSessions(once) = <<>>
        /\ Cardinality(twice.mapping) = Cardinality(jobs.mapping)
        /\ ret.op = "clear_jobs" => ret.val = "Ok" /\ SlotMap_keys(jobs) = {}

\* C31 happens: a clear_jobs has returned on a registry that was empty
\* already, after a clear_jobs had removed a job no delete_job had removed.
C31_Witness ==
    /\ ret.op = "clear_jobs"
    /\ ret.val = "Ok"
    /\ ret.pre.live = 0
    /\ \E n \in 1..Len(issued) : issued[n] \notin deleted

\* C32: each stored job's slot key is mapped to exactly one JobId and no two
\* stored jobs share a JobId, so get_job_list never panics and returns
\* exactly the ids of the jobs stored, each once.
C32_LiveKeysHaveOneId ==
    /\ \A k \in SlotMap_keys(jobs) : Cardinality({p \in jobs.mapping : p[2] = k}) = 1
    /\ \A p, q \in jobs.mapping : (p[1] = q[1] \/ p[2] = q[2]) => p = q
    /\ ~Jobs_iter_panics(jobs)
    /\ ret.op = "get_job_list"
          => /\ ret.val = "Ok"
             /\ ret.list = LiveIds
             /\ Cardinality(ret.list) = Cardinality(SlotMap_keys(jobs))

\* C32 happens: get_job_list has returned the id of a job stored in a slot
\* that an earlier job had left.
C32_Witness ==
    /\ ret.op = "get_job_list"
    /\ ret.list # {}
    /\ \E k \in SlotMap_keys(jobs) : k[2] > 1
    /\ Cardinality(jobs.mapping) > Cardinality(ret.list)

\* C33: a run of the selection takes exactly one of the three branches,
\* once: the outcome is set in one step of the selection and never again,
\* the output is stored by the branch of the child only, and a timer that
\* runs out or an interrupt that comes afterwards changes nothing of the run.
C33_OneBranchOnce ==
    [][/\ v' # v => /\ v = "none"
                    /\ rpc = "select"
                    /\ rpc' = "kill"
                    /\ v' \in {"timeout", "ctrl_c", "exit"}
                    /\ v' = "timeout" => timeout = 0
                    /\ v' = "ctrl_c" => ctrl_c
                    /\ v' = "exit" => ChildDone
       /\ cmd_output' # cmd_output => v' = "exit" /\ v = "none"
       /\ (v # "none" /\ (timeout' # timeout \/ ctrl_c' # ctrl_c))
             => UNCHANGED <<rpc, v, cmd_output, todo, target, signals, result, sess>>]_vars

\* C33 happens: the run has returned after the branch of the child was
\* taken, with the timer run out and an interrupt delivered as well.
C33_Witness ==
    /\ rpc = "returned"
    /\ v = "exit"
    /\ timeout = 0
    /\ ctrl_c

\* C34: in a broadcast, an enumerated process that has ended when its turn
\* comes is passed over without an error, and the processes enumerated with
\* it that are still alive and unchanged are still signalled: when run has
\* returned after such a skip, no enumerated process is left that still runs
\* and was not signalled.
C34_SkipGoesOn ==
    (rpc = "returned" /\ \E p \in DOMAIN sess : sess[p].skipped = "terminated")
        => \A q \in todo \cup ({target} \ {NoChild}) : ~Running(q)

\* C35: Server::new takes the one address when the name resolves to exactly
\* one, the first IPv4 address when it resolves to several, and fails if and
\* only if the name resolves to no address that can be bound (an address of
\* either family can: the only address is taken whatever its family).
C35_ServerNewChoice ==
    address # "none" =>
        /\ (addrs.ok /\ Len(addrs.list) = 1) => address = addrs.list[1]
        /\ (addrs.ok /\ Len(addrs.list) > 1 /\ \E i \in 1..Len(addrs.list) : is_ipv4(addrs.list[i]))
               => \E i \in 1..Len(addrs.list) :
                      /\ address = addrs.list[i]
                      /\ is_ipv4(addrs.list[i])
                      /\ \A j \in 1..(i - 1) : ~is_ipv4(addrs.list[j])
        /\ address = "panic" <=> (~addrs.ok \/ Len(addrs.list) = 0)

C37_WaitReturnsForStderrWriter ==
    \A c \in Clients :
        (pc[c] = "start_create" /\ ErrTotal(procs[call[c].child].script) > 0)
            ~> pc[c] = "idle"

\* C38: after any sequence of POST /jobs, PUT /jobs/{id} and DELETE
\* /jobs/{id} every job stored in the slab has its working directory set, so
\* no request for the files of a stored job panics with "no working dir!".
C38_StoredJobsAreBuilt ==
    /\ \A id \in Slab_keys(sjobs) : sjobs.entries[id + 1].val.wrk_dir
    /\ mutex # Poisoned

\* C39: run_adhoc_input_output returns once the command thread has ended,
\* whether the thread delivered the output or ended without delivering it,
\* also with no timeout and no signal.
C39_ReturnsAfterThreadEnd ==
    (local.thread \in {"ended", "panicked"}) ~> (local.main = "returned")

\* C40: the decoder yields the same chunks however the byte stream is split
\* across the decode calls: when the whole stream has arrived and decode has
\* returned no further chunk, the chunks yielded are those decode yields on
\* the whole stream at once, and no call has panicked; a frame whose payload
\* has not fully arrived is left in buf untouched.
C40_SplitIndependent ==
    /\ ~framed.panicked
    /\ (framed.arrived = Len(framed.stream) /\ ~framed.readable)
           => framed.chunks = DecodeAll(framed.stream)

====
